---- MODULE Spec2Model ----
(***************************************************************************)
(* Change-detection and durable-delivery pipeline of monitor_combined.py:  *)
(* the multi-row header parser, the balance diff, the encrypted state      *)
(* files, and the webhook delivery with retry, circuit breaker and         *)
(* dead-letter queue.                                                      *)
(*                                                                         *)
(* A Python str is a sequence of one-character strings, so that strip(),   *)
(* the "|" key join and split and the substring tests are computed.        *)
(* A nullable number is <<>> (None) or <<n>>.                              *)
(***************************************************************************)
EXTENDS Integers, Sequences, FiniteSets, TLC

----------------------------------------------------------------------------
(* Strings                                                                 *)

sEmpty == << >>
sBar == <<"|">>
sZero == <<"0">>
sA == <<"A">>
sABarB == <<"A", "|", "B">>
sDATE == <<"D", "A", "T", "E">>
sNOTES == <<"N", "O", "T", "E", "S">>
sWHOLE_CHICKEN == <<"W", "H", "O", "L", "E", " ", "C", "H", "I", "C", "K", "E", "N">>
sGIZZARD == <<"G", "I", "Z", "Z", "A", "R", "D">>
sG1 == <<"G", "1">>
sG2 == <<"G", "2">>
sNOTESsp == <<" ", "N", "O", "T", "E", "S">>
sQty == <<"Q", "t", "y">>
sPacks == <<"P", "a", "c", "k", "s">>
sWeight == <<"W", "e", "i", "g", "h", "t", "(", "k", "g", ")">>
s5 == <<"5">>
s7 == <<"7">>
s5sp == <<"5", " ">>
sT == <<"T">>

None == << >>
Some(x) == <<x>>

RECURSIVE LStrip(_)
LStrip(s) == IF s # << >> /\ Head(s) = " " THEN LStrip(Tail(s)) ELSE s

RECURSIVE RStrip(_)
RStrip(s) ==
    IF s # << >> /\ s[Len(s)] = " " THEN RStrip(SubSeq(s, 1, Len(s) - 1)) ELSE s

\* str.strip()
Strip(s) == RStrip(LStrip(s))

\* sub in s
Contains(s, sub) ==
    \E i \in 1..(Len(s) - Len(sub) + 1) : SubSeq(s, i, i + Len(sub) - 1) = sub

\* f"{product}|{grade}|{metric}"
JoinKey(product, grade, metric) == product \o sBar \o grade \o sBar \o metric

\* key.split('|')
RECURSIVE SplitFrom(_, _, _)
SplitFrom(s, i, cur) ==
    IF i > Len(s) THEN <<cur>>
    ELSE IF s[i] = "|" THEN <<cur>> \o SplitFrom(s, i + 1, << >>)
    ELSE SplitFrom(s, i + 1, Append(cur, s[i]))

SplitBar(s) == SplitFrom(s, 1, << >>)

Max2(a, b) == IF a >= b THEN a ELSE b
Abs(x) == IF x < 0 THEN -x ELSE x

----------------------------------------------------------------------------
(* parse_balance_data                                                      *)

MIN_ROWS == 5

\* only DATE columns are skipped
ReservedProducts_date_only == {sDATE}

ReservedProducts == {sDATE, sNOTES}

\* row[i] if i < len(row) else "" (i is 1-based here)
Cell(row, i) == IF i <= Len(row) THEN row[i] ELSE sEmpty

\* the product carried forward to column i: line 219-220
ProductAt(row_product, i, current_product) ==
    IF Strip(Cell(row_product, i)) # sEmpty
    THEN Strip(Cell(row_product, i)) ELSE current_product

RECURSIVE ParseFrom(_, _, _, _, _)
ParseFrom(data, i, max_cols, current_product, current_grade) ==
    IF i > max_cols THEN << >>
    ELSE
      LET product == ProductAt(data[1], i, current_product)
      IN IF product \in ReservedProducts
         THEN ParseFrom(data, i + 1, max_cols, product, current_grade)
         ELSE
           LET grade_cell == Strip(Cell(data[3], i))
               grade == IF grade_cell # sEmpty THEN grade_cell ELSE current_grade
               metric == Strip(Cell(data[5], i))
               value == IF Cell(data[4], i) # sEmpty
                        THEN Strip(Cell(data[4], i)) ELSE sZero
               rest == ParseFrom(data, i + 1, max_cols, product, grade)
           IN IF product # sEmpty /\ grade # sEmpty /\ metric # sEmpty
              THEN << [col_index |-> i - 1, product |-> product, grade |-> grade,
                       metric |-> metric, value |-> value] >> \o rest
              ELSE rest

parse_balance_data(data) ==
    IF Len(data) < MIN_ROWS THEN << >>
    ELSE LET max_cols == Max2(Max2(Len(data[1]), Len(data[3])),
                              Max2(Len(data[4]), Len(data[5])))
         IN ParseFrom(data, 1, max_cols, sEmpty, sEmpty)

----------------------------------------------------------------------------
(* detect_balance_changes                                                  *)

\* the comparison of line 553 written as >= : resets one column too early
DRIFT_THRESHOLD_inclusive == 10 - 1

DRIFT_THRESHOLD == 10

\* a dict that keeps the first value stored under a key
DictPut_first(d, key, value) ==
    IF \E j \in 1..Len(d) : d[j][1] = key THEN d ELSE Append(d, <<key, value>>)

\* d[key] = value on an insertion-ordered dict, kept as a sequence of pairs
DictPut(d, key, value) ==
    IF \E j \in 1..Len(d) : d[j][1] = key
    THEN [j \in 1..Len(d) |-> IF d[j][1] = key THEN <<key, value>> ELSE d[j]]
    ELSE Append(d, <<key, value>>)

RECURSIVE ColumnsToDict(_, _, _)
ColumnsToDict(cols, j, d) ==
    IF j > Len(cols) THEN d
    ELSE ColumnsToDict(cols, j + 1,
            DictPut(d, JoinKey(cols[j].product, cols[j].grade, cols[j].metric),
                    cols[j].value))

\* a lookup of the previous value that never finds the key
DictGet_miss(d, key) == sEmpty

\* d.get(key, "")
DictGet(d, key) ==
    IF \E j \in 1..Len(d) : d[j][1] = key
    THEN (CHOOSE p \in {d[j] : j \in 1..Len(d)} : p[1] = key)[2]
    ELSE sEmpty

\* the loop of lines 578-597 from the j-th key of curr_dict on; a key that does
\* not split into three parts raises at line 584
RECURSIVE CompareFrom(_, _, _)
CompareFrom(prev_dict, curr_dict, j) ==
    IF j > Len(curr_dict) THEN [changes |-> << >>, raised |-> FALSE]
    ELSE
      LET key == curr_dict[j][1]
          curr_val == Strip(curr_dict[j][2])
          prev_val == Strip(DictGet(prev_dict, key))
          parts == SplitBar(key)
          rest == CompareFrom(prev_dict, curr_dict, j + 1)
      IN IF prev_val = curr_val THEN rest
         ELSE IF Len(parts) # 3 THEN [changes |-> << >>, raised |-> TRUE]
         ELSE IF Contains(parts[1], sWHOLE_CHICKEN) /\ parts[3] = sWeight THEN rest
         ELSE IF rest.raised THEN rest
         ELSE [changes |-> << [product |-> parts[1], grade |-> parts[2],
                               metric |-> parts[3], old_value |-> prev_val,
                               new_value |-> curr_val] >> \o rest.changes,
               raised |-> FALSE]

\* a comparison that gives up on grids of incompatible shape without
\* resetting the balance state file
detect_balance_changes_no_reset(previous_data, current_data) ==
    IF previous_data = << >> \/ Len(previous_data) < 5 \/ Len(current_data) < 5
    THEN [changes |-> << >>, reset |-> FALSE, raised |-> FALSE]
    ELSE IF Abs(Len(previous_data[1]) - Len(current_data[1])) > DRIFT_THRESHOLD
    THEN [changes |-> << >>, reset |-> FALSE, raised |-> FALSE]
    ELSE LET prev_dict == ColumnsToDict(parse_balance_data(previous_data), 1, << >>)
             curr_dict == ColumnsToDict(parse_balance_data(current_data), 1, << >>)
             r == CompareFrom(prev_dict, curr_dict, 1)
         IN [changes |-> r.changes, reset |-> FALSE, raised |-> r.raised]

\* Result of detect_balance_changes(previous_data, current_data):
\*   changes - the returned list; reset - save_current_state(current_data,
\*   BALANCE_STATE_FILE) was called; raised - APIError was raised (line 607).
detect_balance_changes(previous_data, current_data) ==
    IF previous_data = << >>
    THEN [changes |-> << >>, reset |-> FALSE, raised |-> FALSE]
    ELSE IF Len(previous_data) < 5 \/ Len(current_data) < 5
    THEN [changes |-> << >>, reset |-> TRUE, raised |-> FALSE]
    ELSE IF Abs(Len(previous_data[1]) - Len(current_data[1])) > DRIFT_THRESHOLD
    THEN [changes |-> << >>, reset |-> TRUE, raised |-> FALSE]
    ELSE LET prev_dict == ColumnsToDict(parse_balance_data(previous_data), 1, << >>)
             curr_dict == ColumnsToDict(parse_balance_data(current_data), 1, << >>)
             r == CompareFrom(prev_dict, curr_dict, 1)
         IN [changes |-> r.changes, reset |-> FALSE, raised |-> r.raised]

----------------------------------------------------------------------------
(* Derived differences                                                     *)

\* Numbers are fixed-point integers in thousandths.
SCALE == 1000

DigitValue(c) ==
    CASE c = "0" -> 0 [] c = "1" -> 1 [] c = "2" -> 2 [] c = "3" -> 3
      [] c = "4" -> 4 [] c = "5" -> 5 [] c = "6" -> 6 [] c = "7" -> 7
      [] c = "8" -> 8 [] c = "9" -> 9 [] OTHER -> -1

RECURSIVE DigitsValue(_, _)
DigitsValue(s, acc) ==
    IF s = << >> THEN acc ELSE DigitsValue(Tail(s), acc * 10 + DigitValue(Head(s)))

\* float(value) for the values of the model (strings of digits): Some(number),
\* or None where float() raises ValueError
ToFloat(s) ==
    IF s # << >> /\ \A i \in 1..Len(s) : DigitValue(s[i]) >= 0
    THEN Some(DigitsValue(s, 0) * SCALE) ELSE None

\* float(value) if value else 0, skipping the column on ValueError
QtyOf(value) ==
    IF value = sEmpty THEN 0
    ELSE IF ToFloat(value) = None THEN 0 ELSE ToFloat(value)[1]

IsWholeChickenQty(col) == Contains(col.product, sWHOLE_CHICKEN) /\ col.metric = sQty
IsGizzardPacks(col) == col.product = sGIZZARD /\ col.metric = sPacks
IsGizzardWeight(col) == col.product = sGIZZARD /\ col.metric = sWeight

Counted(col, what) ==
    CASE what = "pieces" -> IsWholeChickenQty(col)
      [] what = "packs" -> IsGizzardPacks(col)
      [] what = "weight" -> IsGizzardWeight(col)

\* the summing loops of lines 858-869 and 894-913
RECURSIVE SumColumns(_, _, _)
SumColumns(cols, j, what) ==
    IF j > Len(cols) THEN 0
    ELSE (IF Counted(cols[j], what) THEN QtyOf(cols[j].value) ELSE 0)
         + SumColumns(cols, j + 1, what)

\* int(x): truncation toward zero
IntPart(x) == IF x >= 0 THEN (x \div SCALE) * SCALE ELSE -(((-x) \div SCALE) * SCALE)

calculate_total_pieces(stock_data) ==
    IntPart(SumColumns(parse_balance_data(stock_data), 1, "pieces"))

\* <<whole_chicken_diff, gizzard_packs_diff, gizzard_weight_diff>>
calculate_current_differences(stock_data, inventory_balance, gizzard_inventory_packs, gizzard_inventory_weight) ==
    LET parsed_columns == parse_balance_data(stock_data)
        total_pieces == calculate_total_pieces(stock_data)
        current_gizzard_packs == SumColumns(parsed_columns, 1, "packs")
        current_gizzard_weight == SumColumns(parsed_columns, 1, "weight")
    IN << IF inventory_balance # None
          THEN Some(IntPart(total_pieces - inventory_balance[1])) ELSE None,
          IF current_gizzard_packs > 0 /\ gizzard_inventory_packs # None
          THEN Some(current_gizzard_packs - gizzard_inventory_packs[1]) ELSE None,
          IF current_gizzard_weight > 0 /\ gizzard_inventory_weight # None
          THEN Some(current_gizzard_weight - gizzard_inventory_weight[1]) ELSE None >>

\* a tolerance of 0.03
TOLERANCE_wide == 10 + 20

\* 0.01 in thousandths
TOLERANCE == 10

detect_chicken_difference_changes(previous_chicken_diff, current_chicken_diff) ==
    IF previous_chicken_diff = None THEN << >>
    ELSE IF current_chicken_diff # None /\ previous_chicken_diff # current_chicken_diff
    THEN << [label |-> "Whole Chicken Balance Difference",
             old_value |-> previous_chicken_diff[1],
             new_value |-> current_chicken_diff[1]] >>
    ELSE << >>

ScalarChange(label, previous, current) ==
    IF previous # None /\ current # None /\ Abs(previous[1] - current[1]) >= TOLERANCE
    THEN << [label |-> label, old_value |-> previous[1], new_value |-> current[1]] >>
    ELSE << >>

detect_gizzard_difference_changes(previous_gizzard_packs_diff, current_gizzard_packs_diff, previous_gizzard_weight_diff, current_gizzard_weight_diff) ==
    ScalarChange("Gizzard Packs Balance Difference",
                 previous_gizzard_packs_diff, current_gizzard_packs_diff)
    \o ScalarChange("Gizzard Weight Balance Difference",
                    previous_gizzard_weight_diff, current_gizzard_weight_diff)

----------------------------------------------------------------------------
(* Encrypted state files                                                   *)
(*                                                                         *)
(* A Fernet token is the pair of the pickled data and the key it was       *)
(* encrypted under: it decrypts under that key and under no other.  On     *)
(* disk the data of a token is the data field of the file and its key is   *)
(* recorded, per file, in encrypted_with.                                  *)

\* os.environ.get('STATE_ENCRYPTION_KEY') of a process; NoKey: not set
NoKey == ""
Keys == {"k1", "k2", NoKey}

encrypt_state_data(data, key) ==
    [raised |-> key = NoKey, token |-> [data |-> data, key |-> key]]

decrypt_state_data(token, key) ==
    [raised |-> key = NoKey \/ token.key # key, data |-> token.data]

NoFile == [exists |-> FALSE, data |-> << >>]
FileOf(data) == [exists |-> TRUE, data |-> data]

\* isinstance(x, (int, float)) or x is None, for a scalar argument: None is
\* << >>, a number n is <<n>>, and an object of another type is a list of two
\* numbers <<a, b>>
IsNumberOrNone(x) == Len(x) <= 1

\* the validation of load_previous_state for the balance file (lines 490-496)
\* on the decrypted data of the file: fewer than 5 rows is no state
LoadGrid(file) ==
    IF file.exists /\ Len(file.data) >= MIN_ROWS THEN file.data ELSE None

\* a validation that takes every falsy value for no state
LoadScalar_falsy(file) ==
    IF file.exists /\ IsNumberOrNone(file.data) /\ file.data # Some(0)
    THEN file.data ELSE None

\* the validation of load_previous_state for a diff_state file (lines 484-488)
LoadScalar(file) ==
    IF file.exists /\ IsNumberOrNone(file.data) THEN file.data ELSE None

\* a load that takes a missing diff_state file for a stored difference of 0
load_previous_state_zero(file, file_key, kind, key) ==
    IF ~file.exists
    THEN [data |-> IF kind = "diff_state" THEN Some(0) ELSE None, failed |-> FALSE]
    ELSE IF decrypt_state_data([data |-> file.data, key |-> file_key], key).raised
    THEN [data |-> None, failed |-> TRUE]
    ELSE [data |-> IF kind = "diff_state" THEN LoadScalar(file) ELSE LoadGrid(file),
          failed |-> FALSE]

\* a load that returns None for a file it cannot decrypt and records nothing
load_previous_state_silent(file, file_key, kind, key) ==
    IF ~file.exists THEN [data |-> None, failed |-> FALSE]
    ELSE IF decrypt_state_data([data |-> file.data, key |-> file_key], key).raised
    THEN [data |-> None, failed |-> FALSE]
    ELSE [data |-> IF kind = "diff_state" THEN LoadScalar(file) ELSE LoadGrid(file),
          failed |-> FALSE]

\* load_previous_state(state_file), where kind is "diff_state" or "balance":
\*   data - the value returned; failed - save_state_read_failure_alert was
\*   called with the name of the file
load_previous_state(file, file_key, kind, key) ==
    IF ~file.exists THEN [data |-> None, failed |-> FALSE]
    ELSE IF decrypt_state_data([data |-> file.data, key |-> file_key], key).raised
    THEN [data |-> None, failed |-> TRUE]
    ELSE [data |-> IF kind = "diff_state" THEN LoadScalar(file) ELSE LoadGrid(file),
          failed |-> FALSE]

\* a validation that keeps the stored difference when the new one is None
ValidState_number(state, kind) ==
    IF kind = "diff_state" THEN Len(state) = 1 ELSE Len(state) >= MIN_ROWS

\* a validation that accepts every state
ValidState_any(state, kind) == TRUE

\* the validation of save_current_state (lines 509-519): a number or None for
\* a diff_state file, at least 5 rows for the balance file
ValidState(state, kind) ==
    IF kind = "diff_state" THEN IsNumberOrNone(state) ELSE Len(state) >= MIN_ROWS

\* save_current_state(state, state_file): the file and its key afterwards,
\* and raised - APIError was raised (line 530).  write_ok = FALSE is open()
\* raising OSError.
save_current_state(state, kind, file, file_key, key, write_ok) ==
    LET encrypted == encrypt_state_data(state, key)
    IN IF ~ValidState(state, kind)
       THEN [file |-> file, key |-> file_key, raised |-> FALSE]
       ELSE IF encrypted.raised \/ ~write_ok
       THEN [file |-> file, key |-> file_key, raised |-> TRUE]
       ELSE [file |-> FileOf(encrypted.token.data), key |-> encrypted.token.key,
             raised |-> FALSE]

\* the content of the balance file after save_current_state(state,
\* BALANCE_STATE_FILE) with a key set and a writable directory
SaveGrid(file, state) ==
    save_current_state(state, "balance", file, "k1", "k1", TRUE).file

\* the same for a diff_state file
SaveScalar(file, state) ==
    save_current_state(state, "diff_state", file, "k1", "k1", TRUE).file

----------------------------------------------------------------------------
(* Inputs: the Balance sheet and the ETL balances                          *)

\* a grid from its columns <<product, total, grade, value, metric>>
GridOf(cols) == [r \in 1..5 |-> [c \in 1..Len(cols) |-> cols[c][r]]]

\* row 0 extended by k cells, the last of them a NOTES header
WidenRow0(grid, k) ==
    IF k = 0 THEN grid
    ELSE [grid EXCEPT ![1] = @ \o [c \in 1..k |-> IF c = k THEN sNOTES ELSE sEmpty]]

StockGrid(qty, packs) ==
    GridOf(<< <<sWHOLE_CHICKEN, sT, sG1, qty, sQty>>,
              <<sEmpty, sT, sEmpty, s7, sWeight>>,
              <<sGIZZARD, sT, sG1, packs, sPacks>>,
              <<sEmpty, sT, sEmpty, s5, sWeight>> >>)

World(grid, inv, packs, weight) ==
    [grid |-> grid, inventory_balance |-> inv,
     gizzard_inventory_packs |-> packs, gizzard_inventory_weight |-> weight]

Worlds ==
    { World(StockGrid(s5, s7), Some(3000), Some(2000), Some(1000)),
      World(StockGrid(s7, s5), Some(3000), Some(2000), Some(1000)),
      World(WidenRow0(StockGrid(s5, s7), DRIFT_THRESHOLD + 1),
            Some(3000), Some(2000), Some(1000)) }

----------------------------------------------------------------------------
(* webhook_circuit_breaker and the webhook responses                       *)

FAIL_MAX == 5
RESET_TIMEOUT == 60
\* stop_after_attempt(6)
MAX_ATTEMPTS_six == 5 + 1

MAX_ATTEMPTS == 5

NETWORK_ERROR == 0
Statuses == {NETWORK_ERROR, 200, 304, 404, 503}

\* response.ok
ResponseOk(status) == status # NETWORK_ERROR /\ status < 400

\* a classification that retries every HTTP error, 4xx included
should_retry_webhook_any(status) ==
    status = NETWORK_ERROR \/ (400 <= status /\ status < 600)

\* should_retry_webhook on the exception of one attempt
should_retry_webhook(status) ==
    IF status = NETWORK_ERROR THEN TRUE
    ELSE IF 400 <= status /\ status < 500 THEN FALSE
    ELSE 500 <= status /\ status < 600

ClosedBreaker == [state |-> "closed", fail_counter |-> 0]

\* the breaker lets the call through (an open breaker whose timeout has
\* elapsed turns half-open and makes a trial call)
BreakerRejects(b, elapsed) == b.state = "open" /\ elapsed < RESET_TIMEOUT
BreakerEnter(b) == IF b.state = "open" THEN [b EXCEPT !.state = "half_open"] ELSE b

\* a call that returned: the counter is reset and a half-open breaker closes
BreakerSuccess(b) == ClosedBreaker

\* an excluded exception that leaves the breaker as it was
BreakerExcluded_ignored(b) == b

\* a call that raised an excluded exception (HTTPError): no system error, the
\* breaker handles it as a call that returned
BreakerExcluded(b) == BreakerSuccess(b)

\* a breaker placed inside the retry decorator: every attempt of the call counts
BreakerFailure_per_attempt(b) ==
    [state |-> "open", fail_counter |-> FAIL_MAX]

\* a call that raised any other exception; the counter saturates at fail_max,
\* beyond which only "at least fail_max" is ever tested
BreakerFailure(b) ==
    LET n == IF b.fail_counter < FAIL_MAX THEN b.fail_counter + 1 ELSE FAIL_MAX
    IN [state |-> IF b.state = "half_open" \/ n >= FAIL_MAX THEN "open" ELSE "closed",
        fail_counter |-> n]

----------------------------------------------------------------------------
(* State                                                                   *)

MaxQueue == 2
TickSeconds == 30

VARIABLES
    sheet,                          \* the spreadsheet and ETL balances upstream
    BALANCE_STATE_FILE,             \* content of the four encrypted state files
    WHOLE_CHICKEN_DIFF_STATE_FILE,
    GIZZARD_PACKS_DIFF_STATE_FILE,
    GIZZARD_WEIGHT_DIFF_STATE_FILE,
    FAILED_WEBHOOKS_FILE,           \* the dead-letter queue (<<>>: no file)
    STATE_ENCRYPTION_KEY,           \* the environment variable of the process
    encrypted_with,                 \* per encrypted file, the key of its token
    STATE_READ_FAILURE_ALERT_FILE,  \* failed_files of the alert (<<>>: no file)
    webhook_circuit_breaker,        \* in the memory of the running process
    since_opened,                   \* seconds since the breaker opened, up to RESET_TIMEOUT
    pc,                             \* position of main()
    previous_balance_data,          \* locals of main()
    previous_diffs,                 \* previous chicken, gizzard packs and gizzard weight diff
    balance_data,
    inventory,
    current_diffs,
    parsed_columns,                 \* the list returned by parse_balance_data
    balance_changes,
    chicken_difference_changes,
    gizzard_difference_changes,
    caught,                         \* the function whose APIError main() caught
    attempts,                       \* POSTs made by _send_webhook in this run
    responses,                      \* status of each POST of this run, in order
    queue_at_send,                  \* the queue when send_combined_alert was entered
    delivery,                       \* NONE, NOT_NEEDED, PENDING, DELIVERED, DEAD_LETTERED
    consecutive_exhausted,          \* deliveries in a row that ended without a response below 500
    daily_log                       \* data rows of the Daily Log worksheet (daily_inventory_log.py)

files == <<BALANCE_STATE_FILE, WHOLE_CHICKEN_DIFF_STATE_FILE,
           GIZZARD_PACKS_DIFF_STATE_FILE, GIZZARD_WEIGHT_DIFF_STATE_FILE>>
store == <<STATE_ENCRYPTION_KEY, encrypted_with, STATE_READ_FAILURE_ALERT_FILE>>
locals == <<previous_balance_data, previous_diffs, balance_data, inventory,
            current_diffs, parsed_columns, balance_changes,
            chicken_difference_changes, gizzard_difference_changes, caught>>
sending == <<attempts, responses, delivery, queue_at_send>>
vars == <<sheet, files, FAILED_WEBHOOKS_FILE, store, webhook_circuit_breaker,
          since_opened, pc, locals, sending, consecutive_exhausted, daily_log>>

NoInventory == [inventory_balance |-> None, gizzard_inventory_packs |-> None,
                gizzard_inventory_weight |-> None]

\* no encrypted file exists
NoTokens ==
    [balance_state |-> NoKey, whole_chicken_diff_state |-> NoKey,
     gizzard_packs_diff_state |-> NoKey, gizzard_weight_diff_state |-> NoKey,
     failed_webhooks |-> NoKey]

Idle == pc \in {"idle", "done", "aborted"}

\* build_card_alert: the payload is determined by the three change lists
build_card_alert(bc, cc, gc) ==
    [balance_changes |-> bc, chicken_difference_changes |-> cc,
     gizzard_difference_changes |-> gc]

card == build_card_alert(balance_changes, chicken_difference_changes,
                         gizzard_difference_changes)

\* the record of lines 347-354 (error is the kind of the exception; the URL and
\* the timestamp are not part of the model)
FailedWebhook(payload, error_msg) ==
    [payload |-> payload, error |-> error_msg, attempts |-> 5, status |-> "failed"]

\* CircuitBreakerError taken by the handler of line 1714, which saves nothing
save_failed_webhook_unless_open(queue, payload, error_msg) ==
    IF error_msg = "CircuitBreakerError" THEN queue
    ELSE Append(queue, FailedWebhook(payload, error_msg))

\* a save that writes the new record alone
save_failed_webhook_alone(queue, payload, error_msg) ==
    << FailedWebhook(payload, error_msg) >>

\* save_failed_webhook: the new content of the queue file
save_failed_webhook(queue, payload, error_msg) ==
    Append(queue, FailedWebhook(payload, error_msg))

\* lines 356-367: the entries save_failed_webhook appends to; a file that does
\* not decrypt counts as an empty list
existing_webhooks(queue, queue_key, key) ==
    IF queue = << >> THEN << >>
    ELSE IF decrypt_state_data([data |-> queue, key |-> queue_key], key).raised
    THEN << >>
    ELSE queue

\* the queue file and its key after save_failed_webhook(payload, error_msg,
\* webhook_url); when encrypting raises, the handler of line 380 leaves the file
QueueAfterSave(queue, queue_key, key, payload, error_msg) ==
    IF encrypt_state_data(queue, key).raised
    THEN [queue |-> queue, key |-> queue_key]
    ELSE [queue |-> save_failed_webhook(existing_webhooks(queue, queue_key, key),
                                        payload, error_msg),
          key |-> key]

\* a clear that leaves the file in place
clear_failed_webhooks_noop(queue) == queue

\* clear_failed_webhooks: the file is removed
clear_failed_webhooks(queue) == << >>

\* the key of the queue file after clear_failed_webhooks
QueueKeyAfterClear(queue, queue_key) ==
    IF clear_failed_webhooks(queue) = << >> THEN NoKey ELSE queue_key

Init ==
    /\ sheet \in Worlds
    /\ BALANCE_STATE_FILE = NoFile
    /\ WHOLE_CHICKEN_DIFF_STATE_FILE = NoFile
    /\ GIZZARD_PACKS_DIFF_STATE_FILE = NoFile
    /\ GIZZARD_WEIGHT_DIFF_STATE_FILE = NoFile
    /\ FAILED_WEBHOOKS_FILE = << >>
    /\ STATE_ENCRYPTION_KEY = "k1"
    /\ encrypted_with = NoTokens
    /\ STATE_READ_FAILURE_ALERT_FILE = << >>
    /\ webhook_circuit_breaker = ClosedBreaker
    /\ since_opened = 0
    /\ pc = "idle"
    /\ previous_balance_data = None
    /\ previous_diffs = <<None, None, None>>
    /\ balance_data = << >>
    /\ inventory = NoInventory
    /\ current_diffs = <<None, None, None>>
    /\ parsed_columns = << >>
    /\ balance_changes = << >>
    /\ chicken_difference_changes = << >>
    /\ gizzard_difference_changes = << >>
    /\ caught = "none"
    /\ attempts = 0
    /\ responses = << >>
    /\ queue_at_send = << >>
    /\ delivery = "NONE"
    /\ consecutive_exhausted = 0
    /\ daily_log = << >>

----------------------------------------------------------------------------
(* main()                                                                  *)

NoChanges == [changes |-> << >>, reset |-> FALSE, raised |-> FALSE]

Saturate(n) == IF n < FAIL_MAX THEN n + 1 ELSE FAIL_MAX

ResetLocals ==
    /\ previous_balance_data' = None
    /\ previous_diffs' = <<None, None, None>>
    /\ balance_data' = << >>
    /\ inventory' = NoInventory
    /\ current_diffs' = <<None, None, None>>
    /\ balance_changes' = << >>
    /\ chicken_difference_changes' = << >>
    /\ gizzard_difference_changes' = << >>
    /\ attempts' = 0
    /\ responses' = << >>
    /\ queue_at_send' = << >>
    /\ delivery' = "NONE"

\* the four load_previous_state calls of lines 1752-1755, in their order
LoadedBalance ==
    load_previous_state(BALANCE_STATE_FILE, encrypted_with.balance_state,
                        "balance", STATE_ENCRYPTION_KEY)
LoadedChicken ==
    load_previous_state(WHOLE_CHICKEN_DIFF_STATE_FILE,
                        encrypted_with.whole_chicken_diff_state,
                        "diff_state", STATE_ENCRYPTION_KEY)
LoadedPacks ==
    load_previous_state(GIZZARD_PACKS_DIFF_STATE_FILE,
                        encrypted_with.gizzard_packs_diff_state,
                        "diff_state", STATE_ENCRYPTION_KEY)
LoadedWeight ==
    load_previous_state(GIZZARD_WEIGHT_DIFF_STATE_FILE,
                        encrypted_with.gizzard_weight_diff_state,
                        "diff_state", STATE_ENCRYPTION_KEY)

\* check_failed_webhooks: the alert file after the check of the queue; a
\* queue file that does not decrypt writes the alert (line 406)
check_failed_webhooks(alert, queue, queue_key, key) ==
    IF queue # << >> /\ decrypt_state_data([data |-> queue, key |-> queue_key], key).raised
    THEN <<"failed_webhooks.enc">>
    ELSE alert

\* lines 1733-1734: a present alert file is removed
RemoveAlert(alert) == << >>

\* the alert file when the loads begin
AlertBeforeLoads ==
    RemoveAlert(check_failed_webhooks(STATE_READ_FAILURE_ALERT_FILE,
                    FAILED_WEBHOOKS_FILE, encrypted_with.failed_webhooks,
                    STATE_ENCRYPTION_KEY))

\* the alert file after the four loads: main() removes it first (line 1733)
\* and every failed load writes it anew with its own file name (line 137)
AlertAfterLoads ==
    IF LoadedWeight.failed THEN <<"gizzard_weight_diff_state.enc">>
    ELSE IF LoadedPacks.failed THEN <<"gizzard_packs_diff_state.enc">>
    ELSE IF LoadedChicken.failed THEN <<"whole_chicken_diff_state.enc">>
    ELSE IF LoadedBalance.failed THEN <<"balance_state.enc">>
    ELSE AlertBeforeLoads

\* main() from its start to the first POST of send_combined_alert (lines
\* 1722-1797): fetch, load, compute, detect, and enter the circuit breaker.
\* fetch_ok = FALSE is get_sheet_data raising APIError.
Main(fetch_ok) ==
    /\ Idle
    /\ Len(FAILED_WEBHOOKS_FILE) < MaxQueue
    /\ UNCHANGED <<sheet, since_opened, WHOLE_CHICKEN_DIFF_STATE_FILE,
                   GIZZARD_PACKS_DIFF_STATE_FILE, GIZZARD_WEIGHT_DIFF_STATE_FILE,
                   STATE_ENCRYPTION_KEY, parsed_columns>>
    /\ IF ~fetch_ok
       THEN /\ pc' = "aborted"
            /\ caught' = "get_sheet_data"
            /\ ResetLocals
            /\ STATE_READ_FAILURE_ALERT_FILE' = AlertBeforeLoads
            /\ UNCHANGED <<BALANCE_STATE_FILE, FAILED_WEBHOOKS_FILE, encrypted_with,
                           webhook_circuit_breaker, consecutive_exhausted>>
       ELSE
         LET data == sheet.grid
             previous == LoadedBalance.data
             previous_chicken_diff == LoadedChicken.data
             previous_gizzard_packs_diff == LoadedPacks.data
             previous_gizzard_weight_diff == LoadedWeight.data
             diffs == calculate_current_differences(data, sheet.inventory_balance,
                          sheet.gizzard_inventory_packs, sheet.gizzard_inventory_weight)
             detected == IF previous = None THEN NoChanges
                         ELSE detect_balance_changes(previous, data)
             \* save_current_state inside detect_balance_changes (lines 546, 556)
             reset == IF detected.reset
                      THEN save_current_state(data, "balance", BALANCE_STATE_FILE,
                               encrypted_with.balance_state, STATE_ENCRYPTION_KEY, TRUE)
                      ELSE [file |-> BALANCE_STATE_FILE,
                            key |-> encrypted_with.balance_state, raised |-> FALSE]
             chicken == IF previous_chicken_diff = None THEN << >>
                        ELSE detect_chicken_difference_changes(previous_chicken_diff,
                                                               diffs[1])
             gizzard == IF previous_gizzard_packs_diff = None
                           /\ previous_gizzard_weight_diff = None
                        THEN << >>
                        ELSE detect_gizzard_difference_changes(
                                 previous_gizzard_packs_diff, diffs[2],
                                 previous_gizzard_weight_diff, diffs[3])
             payload == build_card_alert(detected.changes, chicken, gizzard)
             changed == detected.changes # << >> \/ chicken # << >> \/ gizzard # << >>
             rejected == BreakerRejects(webhook_circuit_breaker, since_opened)
             dead == QueueAfterSave(FAILED_WEBHOOKS_FILE, encrypted_with.failed_webhooks,
                                    STATE_ENCRYPTION_KEY, payload, "CircuitBreakerError")
             enqueue == ~(detected.raised \/ reset.raised) /\ changed /\ rejected
         IN /\ previous_balance_data' = previous
            /\ previous_diffs' = <<previous_chicken_diff, previous_gizzard_packs_diff,
                                   previous_gizzard_weight_diff>>
            /\ balance_data' = data
            /\ inventory' = [inventory_balance |-> sheet.inventory_balance,
                             gizzard_inventory_packs |-> sheet.gizzard_inventory_packs,
                             gizzard_inventory_weight |-> sheet.gizzard_inventory_weight]
            /\ current_diffs' = diffs
            /\ STATE_READ_FAILURE_ALERT_FILE' = AlertAfterLoads
            /\ BALANCE_STATE_FILE' = reset.file
            /\ encrypted_with' =
                   [encrypted_with EXCEPT
                       !.balance_state = reset.key,
                       !.failed_webhooks = IF enqueue THEN dead.key ELSE @]
            /\ attempts' = 0
            /\ responses' = << >>
            /\ queue_at_send' = IF changed /\ ~(detected.raised \/ reset.raised)
                                THEN FAILED_WEBHOOKS_FILE ELSE << >>
            /\ IF detected.raised \/ reset.raised
               THEN \* APIError from detect_balance_changes: main() returns
                    /\ pc' = "aborted"
                    /\ caught' = "detect_balance_changes"
                    /\ balance_changes' = << >>
                    /\ chicken_difference_changes' = << >>
                    /\ gizzard_difference_changes' = << >>
                    /\ delivery' = "NONE"
                    /\ UNCHANGED <<FAILED_WEBHOOKS_FILE, webhook_circuit_breaker,
                                   consecutive_exhausted>>
               ELSE
                    /\ caught' = "none"
                    /\ balance_changes' = detected.changes
                    /\ chicken_difference_changes' = chicken
                    /\ gizzard_difference_changes' = gizzard
                    /\ IF ~changed
                       THEN /\ pc' = "persist"
                            /\ delivery' = "NOT_NEEDED"
                            /\ UNCHANGED <<FAILED_WEBHOOKS_FILE, webhook_circuit_breaker,
                                           consecutive_exhausted>>
                       ELSE IF rejected
                       THEN \* CircuitBreakerError before any POST (line 1701)
                            /\ pc' = "persist"
                            /\ delivery' = "DEAD_LETTERED"
                            /\ FAILED_WEBHOOKS_FILE' = dead.queue
                            /\ consecutive_exhausted' = Saturate(consecutive_exhausted)
                            /\ UNCHANGED webhook_circuit_breaker
                       ELSE /\ pc' = "sending"
                            /\ delivery' = "PENDING"
                            /\ webhook_circuit_breaker' = BreakerEnter(webhook_circuit_breaker)
                            /\ UNCHANGED <<FAILED_WEBHOOKS_FILE, consecutive_exhausted>>
    /\ UNCHANGED daily_log

\* the queue file after save_failed_webhook(card, error_detail, webhook_url)
DeadLetter(error_msg) ==
    QueueAfterSave(FAILED_WEBHOOKS_FILE, encrypted_with.failed_webhooks,
                   STATE_ENCRYPTION_KEY, card, error_msg)

\* one attempt of _send_webhook (lines 1679-1693) with the handling of its
\* outcome by the retry decorator, the breaker and lines 1695-1712
Post(status) ==
    /\ pc = "sending"
    /\ attempts' = attempts + 1
    /\ responses' = Append(responses, status)
    /\ UNCHANGED <<sheet, files, since_opened, locals, queue_at_send,
                   STATE_ENCRYPTION_KEY, STATE_READ_FAILURE_ALERT_FILE>>
    /\ IF ResponseOk(status)
       THEN /\ webhook_circuit_breaker' = BreakerSuccess(webhook_circuit_breaker)
            /\ FAILED_WEBHOOKS_FILE' = clear_failed_webhooks(FAILED_WEBHOOKS_FILE)
            /\ encrypted_with' =
                   [encrypted_with EXCEPT !.failed_webhooks =
                       QueueKeyAfterClear(FAILED_WEBHOOKS_FILE, @)]
            /\ delivery' = "DELIVERED"
            /\ pc' = "persist"
            /\ consecutive_exhausted' = 0
       ELSE IF ~should_retry_webhook(status)
       THEN \* HTTPError is re-raised by the retry decorator and excluded by the breaker
            /\ webhook_circuit_breaker' = BreakerExcluded(webhook_circuit_breaker)
            /\ FAILED_WEBHOOKS_FILE' = DeadLetter("HTTPError").queue
            /\ encrypted_with' =
                   [encrypted_with EXCEPT !.failed_webhooks = DeadLetter("HTTPError").key]
            /\ delivery' = "DEAD_LETTERED"
            /\ pc' = "persist"
            /\ consecutive_exhausted' = 0
       ELSE IF attempts + 1 < MAX_ATTEMPTS
       THEN \* the decorator sleeps and calls again
            /\ UNCHANGED <<webhook_circuit_breaker, FAILED_WEBHOOKS_FILE, encrypted_with,
                           delivery, pc, consecutive_exhausted>>
       ELSE \* RetryError after the last attempt
            LET tripped == BreakerFailure(webhook_circuit_breaker)
                dead == DeadLetter(IF tripped.state = "open" THEN "CircuitBreakerError"
                                   ELSE "RetryError")
            IN /\ webhook_circuit_breaker' = tripped
               /\ FAILED_WEBHOOKS_FILE' = dead.queue
               /\ encrypted_with' = [encrypted_with EXCEPT !.failed_webhooks = dead.key]
               /\ delivery' = "DEAD_LETTERED"
               /\ pc' = "persist"
               /\ consecutive_exhausted' = Saturate(consecutive_exhausted)
    /\ UNCHANGED daily_log

\* the i-th save_current_state call of lines 1802-1805
SaveOf(i, write_ok) ==
    CASE i = 1 -> save_current_state(balance_data, "balance", BALANCE_STATE_FILE,
                      encrypted_with.balance_state, STATE_ENCRYPTION_KEY, write_ok)
      [] i = 2 -> save_current_state(current_diffs[1], "diff_state",
                      WHOLE_CHICKEN_DIFF_STATE_FILE,
                      encrypted_with.whole_chicken_diff_state,
                      STATE_ENCRYPTION_KEY, write_ok)
      [] i = 3 -> save_current_state(current_diffs[2], "diff_state",
                      GIZZARD_PACKS_DIFF_STATE_FILE,
                      encrypted_with.gizzard_packs_diff_state,
                      STATE_ENCRYPTION_KEY, write_ok)
      [] i = 4 -> save_current_state(current_diffs[3], "diff_state",
                      GIZZARD_WEIGHT_DIFF_STATE_FILE,
                      encrypted_with.gizzard_weight_diff_state,
                      STATE_ENCRYPTION_KEY, write_ok)

\* the state files after the first n save_current_state calls have returned
SavedThrough(n) ==
    LET after(i, file, key) ==
            IF i <= n THEN SaveOf(i, TRUE) ELSE [file |-> file, key |-> key]
    IN /\ BALANCE_STATE_FILE' =
              after(1, BALANCE_STATE_FILE, encrypted_with.balance_state).file
       /\ WHOLE_CHICKEN_DIFF_STATE_FILE' =
              after(2, WHOLE_CHICKEN_DIFF_STATE_FILE,
                    encrypted_with.whole_chicken_diff_state).file
       /\ GIZZARD_PACKS_DIFF_STATE_FILE' =
              after(3, GIZZARD_PACKS_DIFF_STATE_FILE,
                    encrypted_with.gizzard_packs_diff_state).file
       /\ GIZZARD_WEIGHT_DIFF_STATE_FILE' =
              after(4, GIZZARD_WEIGHT_DIFF_STATE_FILE,
                    encrypted_with.gizzard_weight_diff_state).file
       /\ encrypted_with' =
              [encrypted_with EXCEPT
                  !.balance_state = after(1, BALANCE_STATE_FILE, @).key,
                  !.whole_chicken_diff_state =
                      after(2, WHOLE_CHICKEN_DIFF_STATE_FILE, @).key,
                  !.gizzard_packs_diff_state =
                      after(3, GIZZARD_PACKS_DIFF_STATE_FILE, @).key,
                  !.gizzard_weight_diff_state =
                      after(4, GIZZARD_WEIGHT_DIFF_STATE_FILE, @).key]

\* main() returns; what it fetched and computed stays as the record of the run
ReturnFromMain ==
    /\ previous_balance_data' = None
    /\ previous_diffs' = <<None, None, None>>
    /\ balance_changes' = << >>
    /\ chicken_difference_changes' = << >>
    /\ gizzard_difference_changes' = << >>
    /\ attempts' = 0
    /\ responses' = << >>
    /\ queue_at_send' = << >>
    /\ UNCHANGED <<sheet, FAILED_WEBHOOKS_FILE, STATE_ENCRYPTION_KEY,
                   STATE_READ_FAILURE_ALERT_FILE, webhook_circuit_breaker,
                   since_opened, balance_data, inventory, current_diffs,
                   parsed_columns, delivery, consecutive_exhausted>>
    /\ UNCHANGED daily_log

\* state files written only when the alert was not dead-lettered
Persist_unless_failed ==
    /\ pc = "persist"
    /\ \A i \in 1..4 : ~SaveOf(i, TRUE).raised
    /\ IF delivery = "DEAD_LETTERED" THEN SavedThrough(0) ELSE SavedThrough(4)
    /\ pc' = "done"
    /\ caught' = "none"
    /\ ReturnFromMain

\* lines 1801-1805: the four save_current_state calls, none of which raises
Persist ==
    /\ pc = "persist"
    /\ \A i \in 1..4 : ~SaveOf(i, TRUE).raised
    /\ SavedThrough(4)
    /\ pc' = "done"
    /\ caught' = "none"
    /\ ReturnFromMain

\* lines 1801-1805 when the fail_at-th save_current_state raises APIError,
\* because no key is set or because the file cannot be written: the handler of
\* line 1811 prints the error and main() returns
PersistFails(fail_at) ==
    /\ pc = "persist"
    /\ \A i \in 1..(fail_at - 1) : ~SaveOf(i, TRUE).raised
    /\ SaveOf(fail_at, STATE_ENCRYPTION_KEY = NoKey).raised
    /\ SavedThrough(fail_at - 1)
    /\ pc' = "aborted"
    /\ caught' = "save_current_state"
    /\ ReturnFromMain

\* the exit status of the process for the exception main() caught: both
\* handlers (lines 1811-1816) only print, so the process ends with status 0
ExitStatus(exception) == 0

(* Environment *)

\* the sheet or the ETL balances are edited between two runs
EditSheet ==
    /\ Idle
    /\ sheet' \in Worlds \ {sheet}
    /\ UNCHANGED <<files, FAILED_WEBHOOKS_FILE, store, webhook_circuit_breaker,
                   since_opened, pc, locals, sending, consecutive_exhausted>>
    /\ UNCHANGED daily_log

\* the next run is a new process: the module is loaded again and line 86
\* constructs a new breaker
NewProcess ==
    /\ Idle
    /\ webhook_circuit_breaker # ClosedBreaker
    /\ webhook_circuit_breaker' = ClosedBreaker
    /\ since_opened' = 0
    /\ UNCHANGED <<sheet, files, FAILED_WEBHOOKS_FILE, store, pc, locals, sending,
                   consecutive_exhausted>>
    /\ UNCHANGED daily_log

\* time passes while the breaker is open
Tick ==
    /\ webhook_circuit_breaker.state = "open"
    /\ since_opened < RESET_TIMEOUT
    /\ since_opened' = IF since_opened + TickSeconds < RESET_TIMEOUT
                       THEN since_opened + TickSeconds ELSE RESET_TIMEOUT
    /\ UNCHANGED <<sheet, files, FAILED_WEBHOOKS_FILE, store, webhook_circuit_breaker,
                   pc, locals, sending, consecutive_exhausted>>
    /\ UNCHANGED daily_log

\* an operator clears the queue with clear_failed_webhooks()
OperatorClear ==
    /\ Idle
    /\ FAILED_WEBHOOKS_FILE # << >>
    /\ FAILED_WEBHOOKS_FILE' = clear_failed_webhooks(FAILED_WEBHOOKS_FILE)
    /\ encrypted_with' =
           [encrypted_with EXCEPT !.failed_webhooks =
               QueueKeyAfterClear(FAILED_WEBHOOKS_FILE, @)]
    /\ UNCHANGED <<sheet, files, STATE_ENCRYPTION_KEY, STATE_READ_FAILURE_ALERT_FILE,
                   webhook_circuit_breaker, since_opened, pc, locals,
                   sending, consecutive_exhausted>>
    /\ UNCHANGED daily_log

Next ==
    \/ \E fetch_ok \in BOOLEAN : Main(fetch_ok)
    \/ \E status \in Statuses : Post(status)
    \/ Persist
    \/ EditSheet
    \/ NewProcess
    \/ Tick
    \/ OperatorClear

Spec == Init /\ [][Next]_vars

----------------------------------------------------------------------------
(* detect_balance_changes on its own, over bounded grids                   *)

MaxCols == 2

DiffColumns ==
    { <<sA, sT, sG1, s5, sQty>>,
      <<sA, sT, sG1, s7, sQty>>,
      <<sEmpty, sT, sEmpty, s5sp, sWeight>>,
      <<sWHOLE_CHICKEN, sT, sG1, s7, sWeight>>,
      <<sDATE, sT, sG1, s5, sQty>>,
      <<sABarB, sT, sG1, s5, sQty>> }

DiffGrids(max_cols) ==
    UNION { { GridOf(cols) : cols \in [1..n -> DiffColumns] } : n \in 1..max_cols }

\* a grid of four rows only
ShortGrid == << <<sA>>, <<sT>>, <<sG1>>, <<s5>> >>

DriftPads == {0, DRIFT_THRESHOLD, DRIFT_THRESHOLD + 1}

InitDiff ==
    /\ previous_balance_data \in DiffGrids(MaxCols) \cup {None, ShortGrid}
    /\ \E g \in DiffGrids(MaxCols), pad \in DriftPads :
           balance_data = WidenRow0(g, pad)
    /\ BALANCE_STATE_FILE = IF previous_balance_data = None THEN NoFile
                            ELSE FileOf(previous_balance_data)
    /\ pc = "detect"
    /\ sheet = World(<< >>, None, None, None)
    /\ WHOLE_CHICKEN_DIFF_STATE_FILE = NoFile
    /\ GIZZARD_PACKS_DIFF_STATE_FILE = NoFile
    /\ GIZZARD_WEIGHT_DIFF_STATE_FILE = NoFile
    /\ FAILED_WEBHOOKS_FILE = << >>
    /\ STATE_ENCRYPTION_KEY = "k1"
    /\ encrypted_with = [NoTokens EXCEPT !.balance_state =
                             IF previous_balance_data = None THEN NoKey ELSE "k1"]
    /\ STATE_READ_FAILURE_ALERT_FILE = << >>
    /\ previous_diffs = <<None, None, None>>
    /\ parsed_columns = << >>
    /\ caught = "none"
    /\ webhook_circuit_breaker = ClosedBreaker
    /\ since_opened = 0
    /\ inventory = NoInventory
    /\ current_diffs = <<None, None, None>>
    /\ balance_changes = << >>
    /\ chicken_difference_changes = << >>
    /\ gizzard_difference_changes = << >>
    /\ attempts = 0
    /\ responses = << >>
    /\ queue_at_send = << >>
    /\ delivery = "NONE"
    /\ consecutive_exhausted = 0
    /\ daily_log = << >>

\* one call detect_balance_changes(previous_balance_data, balance_data)
Detect ==
    /\ pc = "detect"
    /\ LET detected == detect_balance_changes(previous_balance_data, balance_data)
       IN /\ balance_changes' = detected.changes
          /\ BALANCE_STATE_FILE' = IF detected.reset
                                   THEN SaveGrid(BALANCE_STATE_FILE, balance_data)
                                   ELSE BALANCE_STATE_FILE
          /\ pc' = IF detected.raised THEN "raised" ELSE "returned"
    /\ UNCHANGED <<sheet, WHOLE_CHICKEN_DIFF_STATE_FILE, GIZZARD_PACKS_DIFF_STATE_FILE,
                   GIZZARD_WEIGHT_DIFF_STATE_FILE, FAILED_WEBHOOKS_FILE, store,
                   webhook_circuit_breaker, since_opened, previous_balance_data,
                   previous_diffs, balance_data, inventory, current_diffs,
                   parsed_columns, chicken_difference_changes,
                   gizzard_difference_changes, caught, sending, consecutive_exhausted>>
    /\ UNCHANGED daily_log

NextDiff == Detect

SpecDiff == InitDiff /\ [][NextDiff]_vars

----------------------------------------------------------------------------
(* parse_balance_data on its own, over bounded grids                       *)

MaxParseCols == 3

ParseColumns ==
    { <<sA, sT, sG1, s5, sQty>>,
      <<sEmpty, sT, sEmpty, s5sp, sWeight>>,
      <<sDATE, sT, sG2, s5, sQty>>,
      <<sNOTESsp, sT, sG2, s5, sQty>>,
      <<sGIZZARD, sT, sEmpty, s7, sPacks>>,
      <<sEmpty, sT, sG1, sEmpty, sEmpty>> }

\* the grade row without its last cell: the rows of a sheet have unequal lengths
ShortenGradeRow(grid) ==
    [grid EXCEPT ![3] = SubSeq(@, 1, Len(@) - 1)]

ParseGrids ==
    LET full == UNION { { GridOf(cols) : cols \in [1..n -> ParseColumns] } :
                        n \in 1..MaxParseCols }
    IN full \cup { WidenRow0(g, 2) : g \in full }
            \cup { ShortenGradeRow(g) : g \in full }
            \cup { SubSeq(g, 1, 4) : g \in full }
            \cup { << >> }

InitParse ==
    /\ balance_data \in ParseGrids
    /\ pc = "parse"
    /\ sheet = World(<< >>, None, None, None)
    /\ BALANCE_STATE_FILE = NoFile
    /\ WHOLE_CHICKEN_DIFF_STATE_FILE = NoFile
    /\ GIZZARD_PACKS_DIFF_STATE_FILE = NoFile
    /\ GIZZARD_WEIGHT_DIFF_STATE_FILE = NoFile
    /\ FAILED_WEBHOOKS_FILE = << >>
    /\ STATE_ENCRYPTION_KEY = "k1"
    /\ encrypted_with = NoTokens
    /\ STATE_READ_FAILURE_ALERT_FILE = << >>
    /\ webhook_circuit_breaker = ClosedBreaker
    /\ since_opened = 0
    /\ previous_balance_data = None
    /\ previous_diffs = <<None, None, None>>
    /\ inventory = NoInventory
    /\ current_diffs = <<None, None, None>>
    /\ parsed_columns = << >>
    /\ balance_changes = << >>
    /\ chicken_difference_changes = << >>
    /\ gizzard_difference_changes = << >>
    /\ caught = "none"
    /\ attempts = 0
    /\ responses = << >>
    /\ queue_at_send = << >>
    /\ delivery = "NONE"
    /\ consecutive_exhausted = 0
    /\ daily_log = << >>

\* one call parse_balance_data(balance_data)
Parse ==
    /\ pc = "parse"
    /\ parsed_columns' = parse_balance_data(balance_data)
    /\ pc' = "parsed"
    /\ UNCHANGED <<sheet, files, FAILED_WEBHOOKS_FILE, store, webhook_circuit_breaker,
                   since_opened, previous_balance_data, previous_diffs, balance_data,
                   inventory, current_diffs, balance_changes,
                   chicken_difference_changes, gizzard_difference_changes, caught,
                   sending, consecutive_exhausted>>
    /\ UNCHANGED daily_log

NextParse == Parse

SpecParse == InitParse /\ [][NextParse]_vars

----------------------------------------------------------------------------
(* main() with faults of the store: the key of the process changes between *)
(* runs or is not set, a state file cannot be written, and a product name  *)
(* of the sheet contains the separator of the comparison keys              *)

FaultGrid(qty, bar) ==
    GridOf(<< <<sWHOLE_CHICKEN, sT, sG1, qty, sQty>>,
              <<sGIZZARD, sT, sG1, s7, sPacks>>,
              <<sABarB, sT, sG1, bar, sQty>> >>)

FaultWorlds ==
    { World(FaultGrid(s5, s5), Some(3000), Some(2000), Some(1000)),
      World(FaultGrid(s7, s5), Some(3000), Some(2000), Some(1000)),
      World(FaultGrid(s5, s7), Some(3000), Some(2000), Some(1000)) }

\* the webhook accepts every POST
FaultStatuses == {200}

InitFault ==
    /\ sheet \in FaultWorlds
    /\ BALANCE_STATE_FILE = NoFile
    /\ WHOLE_CHICKEN_DIFF_STATE_FILE = NoFile
    /\ GIZZARD_PACKS_DIFF_STATE_FILE = NoFile
    /\ GIZZARD_WEIGHT_DIFF_STATE_FILE = NoFile
    /\ FAILED_WEBHOOKS_FILE = << >>
    /\ STATE_ENCRYPTION_KEY = "k1"
    /\ encrypted_with = NoTokens
    /\ STATE_READ_FAILURE_ALERT_FILE = << >>
    /\ webhook_circuit_breaker = ClosedBreaker
    /\ since_opened = 0
    /\ pc = "idle"
    /\ previous_balance_data = None
    /\ previous_diffs = <<None, None, None>>
    /\ balance_data = << >>
    /\ inventory = NoInventory
    /\ current_diffs = <<None, None, None>>
    /\ parsed_columns = << >>
    /\ balance_changes = << >>
    /\ chicken_difference_changes = << >>
    /\ gizzard_difference_changes = << >>
    /\ caught = "none"
    /\ attempts = 0
    /\ responses = << >>
    /\ queue_at_send = << >>
    /\ delivery = "NONE"
    /\ consecutive_exhausted = 0
    /\ daily_log = << >>

EditSheetFault ==
    /\ Idle
    /\ sheet' \in FaultWorlds \ {sheet}
    /\ UNCHANGED <<files, FAILED_WEBHOOKS_FILE, store, webhook_circuit_breaker,
                   since_opened, pc, locals, sending, consecutive_exhausted>>
    /\ UNCHANGED daily_log

\* the next run is a process with another STATE_ENCRYPTION_KEY, or with none
RotateKey ==
    /\ Idle
    /\ STATE_ENCRYPTION_KEY' \in Keys \ {STATE_ENCRYPTION_KEY}
    /\ UNCHANGED <<sheet, files, FAILED_WEBHOOKS_FILE, encrypted_with,
                   STATE_READ_FAILURE_ALERT_FILE, webhook_circuit_breaker,
                   since_opened, pc, locals, sending, consecutive_exhausted>>
    /\ UNCHANGED daily_log

NextFault ==
    \/ \E fetch_ok \in BOOLEAN : Main(fetch_ok)
    \/ \E status \in FaultStatuses : Post(status)
    \/ Persist
    \/ \E fail_at \in 1..4 : PersistFails(fail_at)
    \/ EditSheetFault
    \/ RotateKey

SpecFault == InitFault /\ [][NextFault]_vars

----------------------------------------------------------------------------
(* main() with a webhook that refuses alerts and a key that changes        *)
(* between runs: the dead-letter queue under faults of the store           *)

QueueWorlds ==
    { World(StockGrid(s5, s7), Some(3000), Some(2000), Some(1000)),
      World(StockGrid(s7, s5), Some(3000), Some(2000), Some(1000)) }

\* the webhook answers every POST with 404
QueueStatuses == {404}

InitQueue ==
    /\ sheet \in QueueWorlds
    /\ BALANCE_STATE_FILE = NoFile
    /\ WHOLE_CHICKEN_DIFF_STATE_FILE = NoFile
    /\ GIZZARD_PACKS_DIFF_STATE_FILE = NoFile
    /\ GIZZARD_WEIGHT_DIFF_STATE_FILE = NoFile
    /\ FAILED_WEBHOOKS_FILE = << >>
    /\ STATE_ENCRYPTION_KEY = "k1"
    /\ encrypted_with = NoTokens
    /\ STATE_READ_FAILURE_ALERT_FILE = << >>
    /\ webhook_circuit_breaker = ClosedBreaker
    /\ since_opened = 0
    /\ pc = "idle"
    /\ previous_balance_data = None
    /\ previous_diffs = <<None, None, None>>
    /\ balance_data = << >>
    /\ inventory = NoInventory
    /\ current_diffs = <<None, None, None>>
    /\ parsed_columns = << >>
    /\ balance_changes = << >>
    /\ chicken_difference_changes = << >>
    /\ gizzard_difference_changes = << >>
    /\ caught = "none"
    /\ attempts = 0
    /\ responses = << >>
    /\ queue_at_send = << >>
    /\ delivery = "NONE"
    /\ consecutive_exhausted = 0
    /\ daily_log = << >>

EditSheetQueue ==
    /\ Idle
    /\ sheet' \in QueueWorlds \ {sheet}
    /\ UNCHANGED <<files, FAILED_WEBHOOKS_FILE, store, webhook_circuit_breaker,
                   since_opened, pc, locals, sending, consecutive_exhausted>>
    /\ UNCHANGED daily_log

\* the next run is a process with another STATE_ENCRYPTION_KEY
ReplaceKey ==
    /\ Idle
    /\ STATE_ENCRYPTION_KEY' \in Keys \ {STATE_ENCRYPTION_KEY, NoKey}
    /\ UNCHANGED <<sheet, files, FAILED_WEBHOOKS_FILE, encrypted_with,
                   STATE_READ_FAILURE_ALERT_FILE, webhook_circuit_breaker,
                   since_opened, pc, locals, sending, consecutive_exhausted>>
    /\ UNCHANGED daily_log

NextQueue ==
    \/ \E fetch_ok \in BOOLEAN : Main(fetch_ok)
    \/ \E status \in QueueStatuses : Post(status)
    \/ Persist
    \/ EditSheetQueue
    \/ ReplaceKey

SpecQueue == InitQueue /\ [][NextQueue]_vars

----------------------------------------------------------------------------
(* main() in a process that can be killed between two of its steps         *)

\* the webhook accepts a POST or answers 404
CrashStatuses == {200, 404}

\* the process is killed while it waits for the webhook or before the saves
\* of lines 1802-1805: nothing more is written, the breaker goes with the
\* process, and what the run had computed stays as its record
Crash ==
    /\ pc \in {"sending", "persist"}
    /\ pc' = "aborted"
    /\ caught' = "interrupted"
    /\ webhook_circuit_breaker' = ClosedBreaker
    /\ UNCHANGED <<sheet, files, FAILED_WEBHOOKS_FILE, store, since_opened,
                   previous_balance_data, previous_diffs, balance_data, inventory,
                   current_diffs, parsed_columns, balance_changes,
                   chicken_difference_changes, gizzard_difference_changes,
                   sending, consecutive_exhausted>>
    /\ UNCHANGED daily_log

NextCrash ==
    \/ \E fetch_ok \in BOOLEAN : Main(fetch_ok)
    \/ \E status \in CrashStatuses : Post(status)
    \/ Persist
    \/ EditSheet
    \/ Crash

SpecCrash == Init /\ [][NextCrash]_vars

----------------------------------------------------------------------------
(* robust_api_call around one read of the spreadsheet                      *)

\* the outcomes of api_func(): a network error, the values (200), and
\* HttpError with status 404, 429 or 503
ApiStatuses == {NETWORK_ERROR, 200, 404, 429, 503}

\* is_rate_limit_error(exception) for an HttpError of this status; the text of
\* a network error names no quota and no rate limit
is_rate_limit_error(status) == status \in {429, 500, 502, 503}

\* retry_if_exception_type((HttpError, Exception)): every exception that
\* api_func raises is retried
RetriesApiError(status) == status # 200

\* stop_after_attempt(5) of line 421
API_MAX_ATTEMPTS == 5

InitRead ==
    /\ pc = "api_call"
    /\ attempts = 0
    /\ responses = << >>
    /\ caught = "none"
    /\ sheet \in QueueWorlds
    /\ balance_data = << >>
    /\ BALANCE_STATE_FILE = NoFile
    /\ WHOLE_CHICKEN_DIFF_STATE_FILE = NoFile
    /\ GIZZARD_PACKS_DIFF_STATE_FILE = NoFile
    /\ GIZZARD_WEIGHT_DIFF_STATE_FILE = NoFile
    /\ FAILED_WEBHOOKS_FILE = << >>
    /\ STATE_ENCRYPTION_KEY = "k1"
    /\ encrypted_with = NoTokens
    /\ STATE_READ_FAILURE_ALERT_FILE = << >>
    /\ webhook_circuit_breaker = ClosedBreaker
    /\ since_opened = 0
    /\ previous_balance_data = None
    /\ previous_diffs = <<None, None, None>>
    /\ inventory = NoInventory
    /\ current_diffs = <<None, None, None>>
    /\ parsed_columns = << >>
    /\ balance_changes = << >>
    /\ chicken_difference_changes = << >>
    /\ gizzard_difference_changes = << >>
    /\ queue_at_send = << >>
    /\ delivery = "NONE"
    /\ consecutive_exhausted = 0
    /\ daily_log = << >>

\* one call of api_func by robust_api_call inside get_sheet_data (line 457),
\* with what the retry decorator and the handlers of lines 466-471 make of
\* its outcome
ApiCall(status) ==
    /\ pc = "api_call"
    /\ attempts' = attempts + 1
    /\ responses' = Append(responses, status)
    /\ IF status = 200
       THEN /\ pc' = "api_returned"
            /\ balance_data' = sheet.grid
            /\ UNCHANGED caught
       ELSE IF RetriesApiError(status) /\ attempts + 1 < API_MAX_ATTEMPTS
       THEN \* the decorator sleeps and calls again
            UNCHANGED <<pc, balance_data, caught>>
       ELSE \* the exception, or RetryError, becomes APIError in get_sheet_data
            /\ pc' = "api_raised"
            /\ caught' = "get_sheet_data"
            /\ UNCHANGED balance_data
    /\ UNCHANGED <<sheet, files, FAILED_WEBHOOKS_FILE, store, webhook_circuit_breaker,
                   since_opened, previous_balance_data, previous_diffs, inventory,
                   current_diffs, parsed_columns, balance_changes,
                   chicken_difference_changes, gizzard_difference_changes,
                   queue_at_send, delivery, consecutive_exhausted>>
    /\ UNCHANGED daily_log

NextRead == \E status \in ApiStatuses : ApiCall(status)

SpecRead == InitRead /\ [][NextRead]_vars

----------------------------------------------------------------------------
(* Two pipeline instances at the same time.  Every local of main(), its    *)
(* position and the breaker of its process exist once per instance: in     *)
(* this specification pc, the locals and the delivery variables are        *)
(* functions of the instance, and queue_at_send[i] is the list that        *)
(* save_failed_webhook of instance i has read (existing_webhooks).  The    *)
(* files and the sheet are shared.                                         *)

Instances == {1, 2}

\* the sheet as its editors leave it, one version after the other
RaceWorlds ==
    << World(StockGrid(s5, s7), Some(3000), Some(2000), Some(1000)),
       World(StockGrid(s7, s5), Some(3000), Some(2000), Some(1000)),
       World(StockGrid(s7, s7), Some(3000), Some(2000), Some(1000)) >>

\* the version of the sheet a grid was fetched from (0: no grid)
VersionOf(grid) ==
    IF \E v \in 1..Len(RaceWorlds) : RaceWorlds[v].grid = grid
    THEN CHOOSE v \in 1..Len(RaceWorlds) : RaceWorlds[v].grid = grid
    ELSE 0

InitRace ==
    /\ sheet = RaceWorlds[1]
    /\ BALANCE_STATE_FILE = NoFile
    /\ WHOLE_CHICKEN_DIFF_STATE_FILE = NoFile
    /\ GIZZARD_PACKS_DIFF_STATE_FILE = NoFile
    /\ GIZZARD_WEIGHT_DIFF_STATE_FILE = NoFile
    /\ FAILED_WEBHOOKS_FILE = << >>
    /\ STATE_ENCRYPTION_KEY = "k1"
    /\ encrypted_with = NoTokens
    /\ STATE_READ_FAILURE_ALERT_FILE = << >>
    /\ since_opened = 0
    /\ parsed_columns = << >>
    /\ caught = "none"
    /\ consecutive_exhausted = 0
    /\ webhook_circuit_breaker = [i \in Instances |-> ClosedBreaker]
    /\ pc = [i \in Instances |-> "idle"]
    /\ previous_balance_data = [i \in Instances |-> None]
    /\ previous_diffs = [i \in Instances |-> <<None, None, None>>]
    /\ balance_data = [i \in Instances |-> << >>]
    /\ inventory = [i \in Instances |-> NoInventory]
    /\ current_diffs = [i \in Instances |-> <<None, None, None>>]
    /\ balance_changes = [i \in Instances |-> << >>]
    /\ chicken_difference_changes = [i \in Instances |-> << >>]
    /\ gizzard_difference_changes = [i \in Instances |-> << >>]
    /\ attempts = [i \in Instances |-> 0]
    /\ responses = [i \in Instances |-> << >>]
    /\ queue_at_send = [i \in Instances |-> << >>]
    /\ delivery = [i \in Instances |-> "NONE"]
    /\ daily_log = << >>

\* main() of instance i from its start to its POST (lines 1722-1797)
StartRun(i) ==
    /\ pc[i] \in {"idle", "done"}
    /\ Len(FAILED_WEBHOOKS_FILE) < MaxQueue
    /\ LET data == sheet.grid
           previous == LoadedBalance.data
           diffs == calculate_current_differences(data, sheet.inventory_balance,
                        sheet.gizzard_inventory_packs, sheet.gizzard_inventory_weight)
           detected == IF previous = None THEN NoChanges
                       ELSE detect_balance_changes(previous, data)
           chicken == IF LoadedChicken.data = None THEN << >>
                      ELSE detect_chicken_difference_changes(LoadedChicken.data, diffs[1])
           gizzard == IF LoadedPacks.data = None /\ LoadedWeight.data = None
                      THEN << >>
                      ELSE detect_gizzard_difference_changes(
                               LoadedPacks.data, diffs[2], LoadedWeight.data, diffs[3])
           changed == detected.changes # << >> \/ chicken # << >> \/ gizzard # << >>
       IN /\ ~detected.raised
          /\ previous_balance_data' = [previous_balance_data EXCEPT ![i] = previous]
          /\ previous_diffs' = [previous_diffs EXCEPT ![i] =
                 <<LoadedChicken.data, LoadedPacks.data, LoadedWeight.data>>]
          /\ balance_data' = [balance_data EXCEPT ![i] = data]
          /\ inventory' = [inventory EXCEPT ![i] =
                 [inventory_balance |-> sheet.inventory_balance,
                  gizzard_inventory_packs |-> sheet.gizzard_inventory_packs,
                  gizzard_inventory_weight |-> sheet.gizzard_inventory_weight]]
          /\ current_diffs' = [current_diffs EXCEPT ![i] = diffs]
          /\ balance_changes' = [balance_changes EXCEPT ![i] = detected.changes]
          /\ chicken_difference_changes' =
                 [chicken_difference_changes EXCEPT ![i] = chicken]
          /\ gizzard_difference_changes' =
                 [gizzard_difference_changes EXCEPT ![i] = gizzard]
          /\ BALANCE_STATE_FILE' = IF detected.reset
                                   THEN SaveGrid(BALANCE_STATE_FILE, data)
                                   ELSE BALANCE_STATE_FILE
          /\ STATE_READ_FAILURE_ALERT_FILE' = AlertAfterLoads
          /\ attempts' = [attempts EXCEPT ![i] = 0]
          /\ responses' = [responses EXCEPT ![i] = << >>]
          /\ queue_at_send' = [queue_at_send EXCEPT ![i] = << >>]
          /\ delivery' = [delivery EXCEPT ![i] =
                 IF changed THEN "PENDING" ELSE "NOT_NEEDED"]
          /\ pc' = [pc EXCEPT ![i] = IF changed THEN "sending" ELSE "persist"]
          /\ webhook_circuit_breaker' =
                 [webhook_circuit_breaker EXCEPT ![i] =
                     IF changed THEN BreakerEnter(@) ELSE @]
    /\ UNCHANGED <<sheet, WHOLE_CHICKEN_DIFF_STATE_FILE, GIZZARD_PACKS_DIFF_STATE_FILE,
                   GIZZARD_WEIGHT_DIFF_STATE_FILE, FAILED_WEBHOOKS_FILE,
                   STATE_ENCRYPTION_KEY, encrypted_with, since_opened, parsed_columns,
                   caught, consecutive_exhausted>>
    /\ UNCHANGED daily_log

\* the POST of instance i is answered with 404; the handler of line 1701 calls
\* save_failed_webhook, which reads the queue file (lines 356-367)
PostRefused(i) ==
    /\ pc[i] = "sending"
    /\ attempts' = [attempts EXCEPT ![i] = @ + 1]
    /\ responses' = [responses EXCEPT ![i] = Append(@, 404)]
    /\ webhook_circuit_breaker' =
           [webhook_circuit_breaker EXCEPT ![i] = BreakerExcluded(@)]
    /\ queue_at_send' = [queue_at_send EXCEPT ![i] =
           existing_webhooks(FAILED_WEBHOOKS_FILE, encrypted_with.failed_webhooks,
                             STATE_ENCRYPTION_KEY)]
    /\ pc' = [pc EXCEPT ![i] = "enqueue"]
    /\ UNCHANGED <<sheet, files, FAILED_WEBHOOKS_FILE, store, since_opened,
                   previous_balance_data, previous_diffs, balance_data, inventory,
                   current_diffs, parsed_columns, balance_changes,
                   chicken_difference_changes, gizzard_difference_changes, caught,
                   delivery, consecutive_exhausted>>
    /\ UNCHANGED daily_log

\* save_failed_webhook of instance i appends to the list it has read and
\* writes the queue file (lines 370-376)
WriteQueue(i) ==
    /\ pc[i] = "enqueue"
    /\ FAILED_WEBHOOKS_FILE' =
           save_failed_webhook(queue_at_send[i],
               build_card_alert(balance_changes[i], chicken_difference_changes[i],
                                gizzard_difference_changes[i]),
               "HTTPError")
    /\ encrypted_with' = [encrypted_with EXCEPT !.failed_webhooks = STATE_ENCRYPTION_KEY]
    /\ delivery' = [delivery EXCEPT ![i] = "DEAD_LETTERED"]
    /\ pc' = [pc EXCEPT ![i] = "persist"]
    /\ UNCHANGED <<sheet, files, STATE_ENCRYPTION_KEY, STATE_READ_FAILURE_ALERT_FILE,
                   webhook_circuit_breaker, since_opened, previous_balance_data,
                   previous_diffs, balance_data, inventory, current_diffs,
                   parsed_columns, balance_changes, chicken_difference_changes,
                   gizzard_difference_changes, caught, attempts, responses,
                   queue_at_send, consecutive_exhausted>>
    /\ UNCHANGED daily_log

\* the four save_current_state calls of instance i (lines 1802-1805)
PersistRun(i) ==
    /\ pc[i] = "persist"
    /\ BALANCE_STATE_FILE' = SaveGrid(BALANCE_STATE_FILE, balance_data[i])
    /\ WHOLE_CHICKEN_DIFF_STATE_FILE' =
           SaveScalar(WHOLE_CHICKEN_DIFF_STATE_FILE, current_diffs[i][1])
    /\ GIZZARD_PACKS_DIFF_STATE_FILE' =
           SaveScalar(GIZZARD_PACKS_DIFF_STATE_FILE, current_diffs[i][2])
    /\ GIZZARD_WEIGHT_DIFF_STATE_FILE' =
           SaveScalar(GIZZARD_WEIGHT_DIFF_STATE_FILE, current_diffs[i][3])
    /\ encrypted_with' =
           [encrypted_with EXCEPT !.balance_state = "k1",
                                  !.whole_chicken_diff_state = "k1",
                                  !.gizzard_packs_diff_state = "k1",
                                  !.gizzard_weight_diff_state = "k1"]
    /\ pc' = [pc EXCEPT ![i] = "done"]
    /\ UNCHANGED <<sheet, FAILED_WEBHOOKS_FILE, STATE_ENCRYPTION_KEY,
                   STATE_READ_FAILURE_ALERT_FILE, webhook_circuit_breaker,
                   since_opened, previous_balance_data, previous_diffs, balance_data,
                   inventory, current_diffs, parsed_columns, balance_changes,
                   chicken_difference_changes, gizzard_difference_changes, caught,
                   sending, consecutive_exhausted>>
    /\ UNCHANGED daily_log

\* the sheet is edited, at any time
EditSheetRace ==
    /\ VersionOf(sheet.grid) < Len(RaceWorlds)
    /\ sheet' = RaceWorlds[VersionOf(sheet.grid) + 1]
    /\ UNCHANGED <<files, FAILED_WEBHOOKS_FILE, store, webhook_circuit_breaker,
                   since_opened, pc, locals, sending, consecutive_exhausted>>
    /\ UNCHANGED daily_log

NextRace ==
    \/ \E i \in Instances : StartRun(i)
    \/ \E i \in Instances : PostRefused(i)
    \/ \E i \in Instances : WriteQueue(i)
    \/ \E i \in Instances : PersistRun(i)
    \/ EditSheetRace

SpecRace == InitRace /\ [][NextRace]_vars

----------------------------------------------------------------------------
(* main() over runs in which a difference cannot be computed               *)

\* the ETL balances as they follow each other: known, then not available
\* for whole chicken and gizzard packs, then known again with other values
ReseedBalances ==
    << <<Some(3000), Some(2000), Some(1000)>>,
       <<None, None, Some(1000)>>,
       <<Some(4000), Some(3000), Some(2000)>> >>

\* the sheet with qty whole chickens and the v-th of the ETL balances
ReseedWorld(v, qty) ==
    World(StockGrid(qty, s7), ReseedBalances[v][1], ReseedBalances[v][2],
          ReseedBalances[v][3])

ReseedVersion(world) ==
    CHOOSE v \in 1..Len(ReseedBalances) :
        ReseedBalances[v] = <<world.inventory_balance, world.gizzard_inventory_packs,
                              world.gizzard_inventory_weight>>

ReseedStatuses == {200, 404}

\* the store as a run on the first of the worlds has left it
InitReseed ==
    /\ sheet = ReseedWorld(1, s5)
    /\ BALANCE_STATE_FILE = FileOf(sheet.grid)
    /\ LET diffs == calculate_current_differences(sheet.grid, sheet.inventory_balance,
                        sheet.gizzard_inventory_packs, sheet.gizzard_inventory_weight)
       IN /\ WHOLE_CHICKEN_DIFF_STATE_FILE = FileOf(diffs[1])
          /\ GIZZARD_PACKS_DIFF_STATE_FILE = FileOf(diffs[2])
          /\ GIZZARD_WEIGHT_DIFF_STATE_FILE = FileOf(diffs[3])
    /\ FAILED_WEBHOOKS_FILE = << >>
    /\ STATE_ENCRYPTION_KEY = "k1"
    /\ encrypted_with = [NoTokens EXCEPT !.balance_state = "k1",
                                         !.whole_chicken_diff_state = "k1",
                                         !.gizzard_packs_diff_state = "k1",
                                         !.gizzard_weight_diff_state = "k1"]
    /\ STATE_READ_FAILURE_ALERT_FILE = << >>
    /\ webhook_circuit_breaker = ClosedBreaker
    /\ since_opened = 0
    /\ pc = "idle"
    /\ previous_balance_data = None
    /\ previous_diffs = <<None, None, None>>
    /\ balance_data = << >>
    /\ inventory = NoInventory
    /\ current_diffs = <<None, None, None>>
    /\ parsed_columns = << >>
    /\ balance_changes = << >>
    /\ chicken_difference_changes = << >>
    /\ gizzard_difference_changes = << >>
    /\ caught = "none"
    /\ attempts = 0
    /\ responses = << >>
    /\ queue_at_send = << >>
    /\ delivery = "NONE"
    /\ consecutive_exhausted = 0
    /\ daily_log = << >>

\* between two runs the stock is counted anew, or the ETL sheets move on to
\* their next content, or both
EditSheetReseed ==
    /\ Idle
    /\ \E v \in 1..Len(ReseedBalances), qty \in {s5, s7} :
           /\ v \in {ReseedVersion(sheet), ReseedVersion(sheet) + 1}
           /\ sheet' = ReseedWorld(v, qty)
    /\ sheet' # sheet
    /\ UNCHANGED <<files, FAILED_WEBHOOKS_FILE, store, webhook_circuit_breaker,
                   since_opened, pc, locals, sending, consecutive_exhausted>>
    /\ UNCHANGED daily_log

NextReseed ==
    \/ \E fetch_ok \in BOOLEAN : Main(fetch_ok)
    \/ \E status \in ReseedStatuses : Post(status)
    \/ Persist
    \/ EditSheetReseed

SpecReseed == InitReseed /\ [][NextReseed]_vars

----------------------------------------------------------------------------
(* daily_inventory_log.py: main() run once a day or more often, one run at *)
(* a time.  daily_log holds the data rows of the Daily Log worksheet, that *)
(* is its rows from row 4 on, as records of Entry ID, Date and Inventory   *)
(* Level.                                                                  *)

\* the days of November 2026 on which the log is run
MaxLogDays == 4
LogDays == 1..MaxLogDays

\* the inventory levels of a run, in tonnes
LogTonnes == {9, 12}

\* format_date_components(dt)['date']: dt.strftime('%d-%b-%Y')
FormatDate(day) == <<day \div 10, day % 10, "Nov", 2026>>

\* a search that finds no entry
find_existing_entry_for_date_none(log, target_date) == [row |-> 0, entry_id |-> 0]

\* find_existing_entry_for_date: the first data row with the date, as its
\* index in daily_log (0 for None) and its Entry ID
find_existing_entry_for_date(log, target_date) ==
    LET at == { r \in 1..Len(log) : log[r].date = target_date }
    IN IF at = {} THEN [row |-> 0, entry_id |-> 0]
       ELSE LET first == CHOOSE r \in at : \A q \in at : r <= q
            IN [row |-> first, entry_id |-> log[first].entry_id]

\* get_next_entry_id: one more than the largest Entry ID, 1 for an empty log
get_next_entry_id(log) ==
    IF log = << >> THEN 1
    ELSE (CHOOSE m \in { log[r].entry_id : r \in 1..Len(log) } :
              \A r \in 1..Len(log) : log[r].entry_id <= m) + 1

InitLog ==
    /\ daily_log = << >>
    /\ pc = "idle"
    /\ caught = "none"
    /\ sheet = World(StockGrid(s5, s7), None, None, None)
    /\ BALANCE_STATE_FILE = NoFile
    /\ WHOLE_CHICKEN_DIFF_STATE_FILE = NoFile
    /\ GIZZARD_PACKS_DIFF_STATE_FILE = NoFile
    /\ GIZZARD_WEIGHT_DIFF_STATE_FILE = NoFile
    /\ FAILED_WEBHOOKS_FILE = << >>
    /\ STATE_ENCRYPTION_KEY = "k1"
    /\ encrypted_with = NoTokens
    /\ STATE_READ_FAILURE_ALERT_FILE = << >>
    /\ webhook_circuit_breaker = ClosedBreaker
    /\ since_opened = 0
    /\ previous_balance_data = None
    /\ previous_diffs = <<None, None, None>>
    /\ balance_data = << >>
    /\ inventory = NoInventory
    /\ current_diffs = <<None, None, None>>
    /\ parsed_columns = << >>
    /\ balance_changes = << >>
    /\ chicken_difference_changes = << >>
    /\ gizzard_difference_changes = << >>
    /\ attempts = 0
    /\ responses = << >>
    /\ queue_at_send = << >>
    /\ delivery = "NONE"
    /\ consecutive_exhausted = 0

\* one run of main() on the given day with the given inventory level (lines
\* 501-547): the entry of the day is updated in its row, or a new entry is
\* appended below the last row
LogRun(day, tonnes) ==
    /\ pc \in {"idle", "updated", "added", "log_failed"}
    /\ LET existing == find_existing_entry_for_date(daily_log, FormatDate(day))
       IN IF existing.row # 0
          THEN /\ daily_log' = [daily_log EXCEPT ![existing.row] =
                       [entry_id |-> existing.entry_id, date |-> FormatDate(day),
                        inventory_tonnes |-> tonnes]]
               /\ pc' = "updated"
          ELSE /\ daily_log' = Append(daily_log,
                       [entry_id |-> get_next_entry_id(daily_log),
                        date |-> FormatDate(day), inventory_tonnes |-> tonnes])
               /\ pc' = "added"
    /\ caught' = "none"
    /\ UNCHANGED <<sheet, files, FAILED_WEBHOOKS_FILE, store, webhook_circuit_breaker,
                   since_opened, previous_balance_data, previous_diffs, balance_data,
                   inventory, current_diffs, parsed_columns, balance_changes,
                   chicken_difference_changes, gizzard_difference_changes,
                   sending, consecutive_exhausted>>

\* a run in which a call of the Sheets API fails for good before the log is
\* written: DailyLogError leaves main() (line 549)
LogRunFails ==
    /\ pc \in {"idle", "updated", "added", "log_failed"}
    /\ pc' = "log_failed"
    /\ caught' = "DailyLogError"
    /\ UNCHANGED <<sheet, files, FAILED_WEBHOOKS_FILE, store, webhook_circuit_breaker,
                   since_opened, previous_balance_data, previous_diffs, balance_data,
                   inventory, current_diffs, parsed_columns, balance_changes,
                   chicken_difference_changes, gizzard_difference_changes,
                   sending, consecutive_exhausted, daily_log>>

NextLog ==
    \/ \E day \in LogDays, tonnes \in LogTonnes : LogRun(day, tonnes)
    \/ LogRunFails

SpecLog == InitLog /\ [][NextLog]_vars

----------------------------------------------------------------------------
(* save_current_state and load_previous_state on their own: one snapshot   *)
(* of each kind is saved over what the files hold and loaded again, by the *)
(* same process                                                            *)

MaxStoreRows == 6

\* grids of 0 to MaxStoreRows rows
StoreGrids ==
    { << >> } \cup
    { [r \in 1..n |-> IF r <= 5 THEN g[r] ELSE <<sT>>] :
        n \in 3..MaxStoreRows, g \in DiffGrids(1) }

\* None, numbers, and an object that is neither: the list [0, 0]
StoreScalars == {None, Some(0), Some(2000), Some(-3000), Some(10004), <<0, 0>>}

OldGrid == StockGrid(s5, s7)
OldScalar == Some(7000)

InitStore ==
    /\ balance_data \in StoreGrids
    /\ \E x \in StoreScalars : current_diffs = <<x, None, None>>
    /\ BALANCE_STATE_FILE \in {NoFile, FileOf(OldGrid)}
    /\ WHOLE_CHICKEN_DIFF_STATE_FILE \in {NoFile, FileOf(OldScalar)}
    /\ GIZZARD_PACKS_DIFF_STATE_FILE = NoFile
    /\ GIZZARD_WEIGHT_DIFF_STATE_FILE = NoFile
    /\ STATE_ENCRYPTION_KEY = "k1"
    /\ encrypted_with =
           [NoTokens EXCEPT
               !.balance_state = IF BALANCE_STATE_FILE.exists THEN "k1" ELSE NoKey,
               !.whole_chicken_diff_state =
                   IF WHOLE_CHICKEN_DIFF_STATE_FILE.exists THEN "k1" ELSE NoKey]
    /\ pc = "save"
    /\ sheet = World(<< >>, None, None, None)
    /\ FAILED_WEBHOOKS_FILE = << >>
    /\ STATE_READ_FAILURE_ALERT_FILE = << >>
    /\ webhook_circuit_breaker = ClosedBreaker
    /\ since_opened = 0
    /\ previous_balance_data = None
    /\ previous_diffs = <<None, None, None>>
    /\ inventory = NoInventory
    /\ parsed_columns = << >>
    /\ balance_changes = << >>
    /\ chicken_difference_changes = << >>
    /\ gizzard_difference_changes = << >>
    /\ caught = "none"
    /\ attempts = 0
    /\ responses = << >>
    /\ queue_at_send = << >>
    /\ delivery = "NONE"
    /\ consecutive_exhausted = 0
    /\ daily_log = << >>

\* save_current_state(balance_data, BALANCE_STATE_FILE) and
\* save_current_state(current_diffs[1], WHOLE_CHICKEN_DIFF_STATE_FILE)
Save ==
    /\ pc = "save"
    /\ \A i \in 1..2 : ~SaveOf(i, TRUE).raised
    /\ SavedThrough(2)
    /\ pc' = "load"
    /\ UNCHANGED <<sheet, FAILED_WEBHOOKS_FILE, STATE_ENCRYPTION_KEY,
                   STATE_READ_FAILURE_ALERT_FILE, webhook_circuit_breaker,
                   since_opened, locals, sending, consecutive_exhausted>>
    /\ UNCHANGED daily_log

\* load_previous_state of the four state files
Load ==
    /\ pc = "load"
    /\ previous_balance_data' = LoadedBalance.data
    /\ previous_diffs' = <<LoadedChicken.data, LoadedPacks.data, LoadedWeight.data>>
    /\ STATE_READ_FAILURE_ALERT_FILE' = AlertAfterLoads
    /\ pc' = "loaded"
    /\ UNCHANGED <<sheet, files, FAILED_WEBHOOKS_FILE, STATE_ENCRYPTION_KEY,
                   encrypted_with, webhook_circuit_breaker, since_opened,
                   balance_data, inventory, current_diffs, parsed_columns,
                   balance_changes, chicken_difference_changes,
                   gizzard_difference_changes, caught, sending,
                   consecutive_exhausted>>
    /\ UNCHANGED daily_log

NextStore == Save \/ Load

SpecStore == InitStore /\ [][NextStore]_vars

----------------------------------------------------------------------------
(* calculate_current_differences on its own                                *)

\* the values of the data row: an empty cell, "0", "5" and "7"
DerivedValues == {sEmpty, sZero, s5, s7}

DerivedGrid(qty, packs, weight) ==
    GridOf(<< <<sWHOLE_CHICKEN, sT, sG1, qty, sQty>>,
              <<sEmpty, sT, sEmpty, s7, sWeight>>,
              <<sGIZZARD, sT, sG1, packs, sPacks>>,
              <<sEmpty, sT, sEmpty, weight, sWeight>> >>)

\* an ETL balance: not available, or a number
DerivedBalances == {None, Some(3000)}

InitDerived ==
    /\ \E qty \in DerivedValues, packs \in DerivedValues, weight \in DerivedValues,
          inv \in DerivedBalances, gp \in DerivedBalances, gw \in DerivedBalances :
           sheet = World(DerivedGrid(qty, packs, weight), inv, gp, gw)
    /\ pc = "calculate"
    /\ balance_data = sheet.grid
    /\ inventory = [inventory_balance |-> sheet.inventory_balance,
                    gizzard_inventory_packs |-> sheet.gizzard_inventory_packs,
                    gizzard_inventory_weight |-> sheet.gizzard_inventory_weight]
    /\ current_diffs = <<None, None, None>>
    /\ BALANCE_STATE_FILE = NoFile
    /\ WHOLE_CHICKEN_DIFF_STATE_FILE = NoFile
    /\ GIZZARD_PACKS_DIFF_STATE_FILE = NoFile
    /\ GIZZARD_WEIGHT_DIFF_STATE_FILE = NoFile
    /\ FAILED_WEBHOOKS_FILE = << >>
    /\ STATE_ENCRYPTION_KEY = "k1"
    /\ encrypted_with = NoTokens
    /\ STATE_READ_FAILURE_ALERT_FILE = << >>
    /\ webhook_circuit_breaker = ClosedBreaker
    /\ since_opened = 0
    /\ previous_balance_data = None
    /\ previous_diffs = <<None, None, None>>
    /\ parsed_columns = << >>
    /\ balance_changes = << >>
    /\ chicken_difference_changes = << >>
    /\ gizzard_difference_changes = << >>
    /\ caught = "none"
    /\ attempts = 0
    /\ responses = << >>
    /\ queue_at_send = << >>
    /\ delivery = "NONE"
    /\ consecutive_exhausted = 0
    /\ daily_log = << >>

\* one call calculate_current_differences(balance_data, inventory_balance,
\* gizzard_inventory_packs, gizzard_inventory_weight) (line 1758)
Calculate ==
    /\ pc = "calculate"
    /\ current_diffs' =
           calculate_current_differences(balance_data, inventory.inventory_balance,
               inventory.gizzard_inventory_packs, inventory.gizzard_inventory_weight)
    /\ pc' = "calculated"
    /\ UNCHANGED <<sheet, files, FAILED_WEBHOOKS_FILE, store, webhook_circuit_breaker,
                   since_opened, previous_balance_data, previous_diffs, balance_data,
                   inventory, parsed_columns, balance_changes,
                   chicken_difference_changes, gizzard_difference_changes, caught,
                   sending, consecutive_exhausted>>
    /\ UNCHANGED daily_log

NextDerived == Calculate

SpecDerived == InitDerived /\ [][NextDerived]_vars

----------------------------------------------------------------------------
(* detect_chicken_difference_changes and detect_gizzard_difference_changes *)
(* on their own                                                            *)

\* a stored difference is whatever number the state file holds; the current
\* whole-chicken difference is an int (line 885), the gizzard ones are floats.
\* In thousandths: 10.0, 10.004, 10.02, 11.0 and -3.0.  No two of the gizzard
\* values are exactly 0.01 apart, where the rounding of the binary
\* subtraction decides the comparison of lines 649 and 656.
PreviousScalars == {None, Some(10000), Some(10004), Some(10020), Some(-3000)}
CurrentChickenScalars == {None, Some(10000), Some(11000)}
CurrentGizzardScalars == {None, Some(10000), Some(10004), Some(10020)}

InitScalar ==
    /\ previous_diffs \in PreviousScalars \X PreviousScalars \X {None, Some(10000)}
    /\ current_diffs \in
           CurrentChickenScalars \X CurrentGizzardScalars \X CurrentGizzardScalars
    /\ pc = "compare"
    /\ sheet = World(<< >>, None, None, None)
    /\ balance_data = << >>
    /\ inventory = NoInventory
    /\ BALANCE_STATE_FILE = NoFile
    /\ WHOLE_CHICKEN_DIFF_STATE_FILE = NoFile
    /\ GIZZARD_PACKS_DIFF_STATE_FILE = NoFile
    /\ GIZZARD_WEIGHT_DIFF_STATE_FILE = NoFile
    /\ FAILED_WEBHOOKS_FILE = << >>
    /\ STATE_ENCRYPTION_KEY = "k1"
    /\ encrypted_with = NoTokens
    /\ STATE_READ_FAILURE_ALERT_FILE = << >>
    /\ webhook_circuit_breaker = ClosedBreaker
    /\ since_opened = 0
    /\ previous_balance_data = None
    /\ parsed_columns = << >>
    /\ balance_changes = << >>
    /\ chicken_difference_changes = << >>
    /\ gizzard_difference_changes = << >>
    /\ caught = "none"
    /\ attempts = 0
    /\ responses = << >>
    /\ queue_at_send = << >>
    /\ delivery = "NONE"
    /\ consecutive_exhausted = 0
    /\ daily_log = << >>

\* detect_chicken_difference_changes (611-633) and
\* detect_gizzard_difference_changes (635-667), called as in lines 1776 and 1784
CompareDifferences ==
    /\ pc = "compare"
    /\ chicken_difference_changes' =
           detect_chicken_difference_changes(previous_diffs[1], current_diffs[1])
    /\ gizzard_difference_changes' =
           detect_gizzard_difference_changes(previous_diffs[2], current_diffs[2],
                                             previous_diffs[3], current_diffs[3])
    /\ pc' = "compared"
    /\ UNCHANGED <<sheet, files, FAILED_WEBHOOKS_FILE, store, webhook_circuit_breaker,
                   since_opened, previous_balance_data, previous_diffs, balance_data,
                   inventory, current_diffs, parsed_columns, balance_changes, caught,
                   sending, consecutive_exhausted>>
    /\ UNCHANGED daily_log

NextScalar == CompareDifferences

SpecScalar == InitScalar /\ [][NextScalar]_vars

\* the POSTs of one delivery are synchronous and each returns within its
\* timeout, so a pending delivery always makes its next attempt
FairSpec == Spec /\ WF_vars(\E status \in Statuses : Post(status))

----------------------------------------------------------------------------
(* Properties                                                              *)

Last(seq) == seq[Len(seq)]
Retryable(status) == status = NETWORK_ERROR \/ (500 <= status /\ status < 600)
ClientError(status) == 400 <= status /\ status < 500
Five503 == <<503, 503, 503, 503, 503>>

\* the step in which a delivery ends: main() goes on to write the state files
DeliveryEnds == pc # "persist" /\ pc' = "persist" /\ delivery' # "NOT_NEEDED"

\* exactly one record, for the payload of this delivery, is appended
OneEnqueued ==
    /\ Len(FAILED_WEBHOOKS_FILE') = Len(FAILED_WEBHOOKS_FILE) + 1
    /\ SubSeq(FAILED_WEBHOOKS_FILE', 1, Len(FAILED_WEBHOOKS_FILE)) = FAILED_WEBHOOKS_FILE
    /\ Last(FAILED_WEBHOOKS_FILE').payload = card'
    /\ Last(FAILED_WEBHOOKS_FILE').status = "failed"

SheetUnchanged ==
    /\ sheet.grid = balance_data
    /\ sheet.inventory_balance = inventory.inventory_balance
    /\ sheet.gizzard_inventory_packs = inventory.gizzard_inventory_packs
    /\ sheet.gizzard_inventory_weight = inventory.gizzard_inventory_weight

C1_Overwritten ==
    pc = "done" =>
        /\ BALANCE_STATE_FILE = FileOf(balance_data)
        /\ WHOLE_CHICKEN_DIFF_STATE_FILE = FileOf(current_diffs[1])
        /\ GIZZARD_PACKS_DIFF_STATE_FILE = FileOf(current_diffs[2])
        /\ GIZZARD_WEIGHT_DIFF_STATE_FILE = FileOf(current_diffs[3])

C1_Step ==
    /\ pc \in {"sending", "persist"} => pc' \in {"sending", "persist", "done"}
    /\ (pc = "done" /\ pc' # "done" /\ SheetUnchanged) =>
           /\ pc' # "sending"
           /\ balance_changes' = << >>
           /\ chicken_difference_changes' = << >>
           /\ gizzard_difference_changes' = << >>

\* C1: a run that reaches the delivery step always goes on to finish, and when
\* it has finished all four state files hold the grid and the three
\* differences computed in that run, whatever the outcome of the delivery; the
\* next run, on an unchanged sheet, detects no change and sends nothing.
C1_Theorem == [](C1_Overwritten) /\ [][C1_Step]_vars

C1_Witness ==
    /\ pc = "done"
    /\ delivery = "DEAD_LETTERED"
    /\ BALANCE_STATE_FILE = FileOf(balance_data)
    /\ WHOLE_CHICKEN_DIFF_STATE_FILE = FileOf(current_diffs[1])
    /\ SheetUnchanged

\* C2: a delivery that ends without success (retries exhausted, terminal 4xx,
\* breaker open) appends exactly one record for its payload to the dead-letter
\* queue and returns False to main(), which goes on to the state files; a
\* pending delivery never ends main() with an exception.
C2_Theorem ==
    [][ /\ (DeliveryEnds /\ delivery' # "DELIVERED") =>
               (delivery' = "DEAD_LETTERED" /\ OneEnqueued)
        /\ pc = "sending" => pc' \in {"sending", "persist"} ]_vars

C2_Witness ==
    /\ pc = "persist"
    /\ delivery = "DEAD_LETTERED"
    /\ responses = << >>
    /\ webhook_circuit_breaker.state = "open"
    /\ FAILED_WEBHOOKS_FILE = Append(queue_at_send, FailedWebhook(card, "CircuitBreakerError"))

ExhaustedBy503 == responses # Five503 /\ responses' = Five503

\* C3 as stated: five consecutive 503 responses leave exactly one new
\* dead-letter entry and the breaker open.
C3_Original ==
    [][ExhaustedBy503 => (OneEnqueued /\ webhook_circuit_breaker'.state = "open")]_vars

\* C3: five consecutive 503 responses in one delivery leave exactly one new
\* dead-letter entry and count as one failure of the breaker: its count rises
\* by one, and it is open afterwards exactly when this was the fifth failed
\* call in a row of the process or a failed trial call of a half-open breaker.
C3_Theorem ==
    [][ExhaustedBy503 =>
          /\ OneEnqueued
          /\ webhook_circuit_breaker'.fail_counter =
                 (IF webhook_circuit_breaker.fail_counter < 5
                  THEN webhook_circuit_breaker.fail_counter + 1 ELSE 5)
          /\ webhook_circuit_breaker'.state = "open" <=>
                 (webhook_circuit_breaker.state = "half_open"
                  \/ webhook_circuit_breaker.fail_counter >= 4)]_vars

C3_Witness ==
    /\ pc = "persist"
    /\ responses = Five503
    /\ delivery = "DEAD_LETTERED"
    /\ Len(FAILED_WEBHOOKS_FILE) = Len(queue_at_send) + 1
    /\ webhook_circuit_breaker = [state |-> "closed", fail_counter |-> 1]

\* C4: a first response of 4xx ends the delivery: one POST, no retry, exactly
\* one new dead-letter entry.
C4_Theorem ==
    [](responses # << >> /\ ClientError(responses[1]) => Len(responses) = 1)
    /\ [][(responses = << >> /\ responses' # << >> /\ ClientError(responses'[1])) =>
             /\ attempts' = 1
             /\ pc' = "persist"
             /\ delivery' = "DEAD_LETTERED"
             /\ OneEnqueued]_vars

C4_Witness ==
    /\ pc = "persist"
    /\ responses = <<404>>
    /\ attempts = 1
    /\ delivery = "DEAD_LETTERED"
    /\ FAILED_WEBHOOKS_FILE = Append(queue_at_send, FailedWebhook(card, "HTTPError"))

C5_Bounded ==
    /\ attempts = Len(responses)
    /\ attempts <= 5
    /\ \A i \in 1..(Len(responses) - 1) : Retryable(responses[i])
    /\ pc = "sending" =>
           (delivery = "PENDING" /\ \A i \in 1..Len(responses) : Retryable(responses[i]))
    /\ pc = "persist" => delivery \in {"NOT_NEEDED", "DELIVERED", "DEAD_LETTERED"}
    /\ (pc = "persist" /\ delivery = "DELIVERED") =>
           (responses # << >> /\ ~Retryable(Last(responses))
            /\ ~ClientError(Last(responses)))
    /\ (pc = "persist" /\ delivery = "DEAD_LETTERED" /\ responses # << >>) =>
           (ClientError(Last(responses))
            \/ (Retryable(Last(responses)) /\ Len(responses) = 5))

\* C5: a delivery makes at most 5 POSTs, makes another one only after a 5xx
\* response or a network error, is pending until it ends, ends as DELIVERED on
\* the first successful response and as DEAD_LETTERED otherwise, and always ends.
C5_Theorem == [](C5_Bounded) /\ ((pc = "sending") ~> (pc = "persist"))

C5_Witness ==
    /\ pc = "persist"
    /\ delivery = "DELIVERED"
    /\ Len(responses) = 5
    /\ Last(responses) = 200

\* C6 as stated: after 5 failed deliveries in a row, counted over all runs, the
\* breaker is open.
C6_Claim ==
    (Idle /\ consecutive_exhausted >= 5) => webhook_circuit_breaker.state = "open"

ClientErrorStep ==
    /\ pc = "sending"
    /\ Len(responses') = Len(responses) + 1
    /\ ClientError(Last(responses'))

C8_Theorem ==
    (pc = "persist" /\ delivery = "DELIVERED") => FAILED_WEBHOOKS_FILE = << >>

C8_Witness ==
    /\ pc = "persist"
    /\ delivery = "DELIVERED"
    /\ queue_at_send # << >>
    /\ queue_at_send[1].payload # card
    /\ FAILED_WEBHOOKS_FILE = << >>

Returned == pc \in {"returned", "raised"}

\* C9: a grid compared with itself yields the empty list, without an error.
C9_Theorem ==
    (Returned /\ previous_balance_data = balance_data) =>
        (pc = "returned" /\ balance_changes = << >>)

C9_Witness ==
    /\ pc = "returned"
    /\ previous_balance_data = balance_data
    /\ Len(parse_balance_data(balance_data)) = 2
    /\ balance_changes = << >>

ColumnDrift == Abs(Len(previous_balance_data[1]) - Len(balance_data[1]))

HasNewKeyOfA ==
    \E c \in 1..Len(parse_balance_data(balance_data)) :
        LET col == parse_balance_data(balance_data)[c]
            prev == parse_balance_data(previous_balance_data)
        IN /\ col.product = sA
           /\ \A p \in 1..Len(prev) :
                  <<prev[p].product, prev[p].grade, prev[p].metric>>
                      # <<col.product, col.grade, col.metric>>

\* C10: when the column counts of row 0 differ by more than 10 the result is
\* the empty list and the balance state file is reset to the current grid;
\* a difference of up to 10, exactly 10 included, leaves the file alone and is
\* diffed: a key of the current grid that the previous grid lacks is reported.
C10_Theorem ==
    (Returned /\ Len(previous_balance_data) >= 5) =>
        /\ ColumnDrift > 10 =>
               /\ pc = "returned"
               /\ balance_changes = << >>
               /\ BALANCE_STATE_FILE = FileOf(balance_data)
        /\ ColumnDrift <= 10 =>
               /\ BALANCE_STATE_FILE = FileOf(previous_balance_data)
               /\ (pc = "returned" /\ HasNewKeyOfA) => balance_changes # << >>

C10_Witness ==
    /\ pc = "returned"
    /\ Len(previous_balance_data) >= 5
    /\ ColumnDrift = 11
    /\ parse_balance_data(balance_data) # parse_balance_data(previous_balance_data)
    /\ HasNewKeyOfA
    /\ balance_changes = << >>
    /\ BALANCE_STATE_FILE = FileOf(balance_data)

FirstRun ==
    /\ BALANCE_STATE_FILE = NoFile
    /\ WHOLE_CHICKEN_DIFF_STATE_FILE = NoFile
    /\ GIZZARD_PACKS_DIFF_STATE_FILE = NoFile
    /\ GIZZARD_WEIGHT_DIFF_STATE_FILE = NoFile

CurrentDifferences ==
    calculate_current_differences(sheet.grid, sheet.inventory_balance,
        sheet.gizzard_inventory_packs, sheet.gizzard_inventory_weight)

\* C11: a run that fetches the sheet while none of the four state files exists
\* detects no change, makes no POST and adds nothing to the dead-letter queue,
\* and goes on to write the fetched grid and the three differences computed
\* from it to the four state files.
C11_Theorem ==
    /\ [][(FirstRun /\ Main(TRUE)) =>
             /\ pc' = "persist"
             /\ delivery' = "NOT_NEEDED"
             /\ balance_changes' = << >>
             /\ chicken_difference_changes' = << >>
             /\ gizzard_difference_changes' = << >>
             /\ FAILED_WEBHOOKS_FILE' = FAILED_WEBHOOKS_FILE
             /\ FirstRun']_vars
    /\ [][(FirstRun /\ pc = "persist") =>
             /\ pc' = "done"
             /\ responses = << >>
             /\ balance_data = sheet.grid
             /\ current_diffs = CurrentDifferences
             /\ BALANCE_STATE_FILE' = FileOf(sheet.grid)
             /\ WHOLE_CHICKEN_DIFF_STATE_FILE' = FileOf(CurrentDifferences[1])
             /\ GIZZARD_PACKS_DIFF_STATE_FILE' = FileOf(CurrentDifferences[2])
             /\ GIZZARD_WEIGHT_DIFF_STATE_FILE' = FileOf(CurrentDifferences[3])]_vars

C11_Witness ==
    /\ FirstRun
    /\ pc = "persist"
    /\ delivery = "NOT_NEEDED"
    /\ balance_data = sheet.grid
    /\ current_diffs[1] # None
    /\ attempts = 0

SetMax(S) == CHOOSE x \in S : \A y \in S : y <= x

\* the last non-empty product header at or before column i (1-based)
CarriedProduct(data, i) ==
    LET named == {j \in 1..i : Strip(Cell(data[1], j)) # sEmpty}
    IN IF named = {} THEN sEmpty ELSE Strip(Cell(data[1], SetMax(named)))

ReservedColumn(data, i) == CarriedProduct(data, i) \in {sDATE, sNOTES}

\* the last non-empty grade header at or before column i, reserved columns
\* left out
CarriedGrade(data, i) ==
    LET graded == {j \in 1..i : /\ ~ReservedColumn(data, j)
                                /\ Strip(Cell(data[3], j)) # sEmpty}
    IN IF graded = {} THEN sEmpty ELSE Strip(Cell(data[3], SetMax(graded)))

\* C12: for a grid of at least 5 rows every record of parse_balance_data is
\* for a column whose carried-forward product is not DATE or NOTES, carries
\* that product, the grade carried forward over the columns that are not
\* reserved, and the metric of the column, all three non-empty; a grid of
\* fewer than 5 rows gives the empty list.
C12_Theorem ==
    pc = "parsed" =>
        /\ Len(balance_data) < 5 => parsed_columns = << >>
        /\ Len(balance_data) >= 5 =>
               \A r \in 1..Len(parsed_columns) :
                   LET rec == parsed_columns[r]
                       i == rec.col_index + 1
                   IN /\ ~ReservedColumn(balance_data, i)
                      /\ rec.product = CarriedProduct(balance_data, i)
                      /\ rec.grade = CarriedGrade(balance_data, i)
                      /\ rec.metric = Strip(Cell(balance_data[5], i))
                      /\ rec.product # sEmpty
                      /\ rec.grade # sEmpty
                      /\ rec.metric # sEmpty

C12_Witness ==
    /\ pc = "parsed"
    /\ Len(balance_data) >= 5
    /\ Strip(Cell(balance_data[1], 2)) = sNOTES
    /\ Strip(Cell(balance_data[3], 2)) = sG2
    /\ Len(parsed_columns) = 2
    /\ parsed_columns[2].col_index = 2
    /\ parsed_columns[2].product = sGIZZARD
    /\ parsed_columns[2].grade = sG1

\* the file exists and does not decrypt under the key of the process
Unreadable(file, file_key) ==
    file.exists /\ (STATE_ENCRYPTION_KEY = NoKey \/ file_key # STATE_ENCRYPTION_KEY)

UnreadableBalance == Unreadable(BALANCE_STATE_FILE, encrypted_with.balance_state)
UnreadableChicken ==
    Unreadable(WHOLE_CHICKEN_DIFF_STATE_FILE, encrypted_with.whole_chicken_diff_state)
UnreadablePacks ==
    Unreadable(GIZZARD_PACKS_DIFF_STATE_FILE, encrypted_with.gizzard_packs_diff_state)
UnreadableWeight ==
    Unreadable(GIZZARD_WEIGHT_DIFF_STATE_FILE, encrypted_with.gizzard_weight_diff_state)

NoRecordLabelled(changes, label) ==
    \A c \in 1..Len(changes) : changes[c].label # label

\* C13: a state file that exists and cannot be decrypted never ends the run:
\* its load returns None, the detector of that snapshot reports nothing in
\* this run, and when the loads are over the read-failure alert names a file
\* that could not be read (the last one loaded, each failed load writing the
\* alert anew); when every file is read or missing there is no alert.
C13_Theorem ==
    [][Main(TRUE) =>
          /\ UnreadableBalance =>
                 /\ previous_balance_data' = None
                 /\ balance_changes' = << >>
                 /\ pc' # "aborted"
          /\ UnreadableChicken =>
                 /\ previous_diffs'[1] = None
                 /\ chicken_difference_changes' = << >>
          /\ UnreadablePacks =>
                 /\ previous_diffs'[2] = None
                 /\ NoRecordLabelled(gizzard_difference_changes',
                                     "Gizzard Packs Balance Difference")
          /\ UnreadableWeight =>
                 /\ previous_diffs'[3] = None
                 /\ NoRecordLabelled(gizzard_difference_changes',
                                     "Gizzard Weight Balance Difference")
          /\ STATE_READ_FAILURE_ALERT_FILE' =
                 (IF UnreadableWeight THEN <<"gizzard_weight_diff_state.enc">>
                  ELSE IF UnreadablePacks THEN <<"gizzard_packs_diff_state.enc">>
                  ELSE IF UnreadableChicken THEN <<"whole_chicken_diff_state.enc">>
                  ELSE IF UnreadableBalance THEN <<"balance_state.enc">>
                  ELSE << >>)]_vars

C13_Witness ==
    /\ pc = "sending"
    /\ STATE_READ_FAILURE_ALERT_FILE = <<"gizzard_packs_diff_state.enc">>
    /\ GIZZARD_PACKS_DIFF_STATE_FILE.exists
    /\ encrypted_with.gizzard_packs_diff_state # STATE_ENCRYPTION_KEY
    /\ previous_diffs[2] = None
    /\ previous_balance_data # None
    /\ balance_changes # << >>
    /\ gizzard_difference_changes = << >>

\* C16 as stated: a run in which save_current_state raised ends as a failed
\* run, with an exit status other than 0.
C16_Claim ==
    (pc = "aborted" /\ caught = "save_current_state") => ExitStatus(caught) # 0

\* C17 as stated: a run that fetched the grid and had no durability error has
\* written the grid and the three differences to the four state files.
C17_Claim ==
    (Idle /\ balance_data # << >> /\ caught # "save_current_state") =>
        /\ BALANCE_STATE_FILE = FileOf(balance_data)
        /\ WHOLE_CHICKEN_DIFF_STATE_FILE = FileOf(current_diffs[1])
        /\ GIZZARD_PACKS_DIFF_STATE_FILE = FileOf(current_diffs[2])
        /\ GIZZARD_WEIGHT_DIFF_STATE_FILE = FileOf(current_diffs[3])

\* C14: save_current_state of a grid with fewer than 5 rows to the balance
\* file, or of a value that is neither a number nor None to a diff_state file,
\* returns without an exception and leaves the file as it was.
C14_Theorem ==
    [][pc = "save" =>
          /\ pc' = "load"
          /\ Len(balance_data) < 5 =>
                 /\ BALANCE_STATE_FILE' = BALANCE_STATE_FILE
                 /\ encrypted_with'.balance_state = encrypted_with.balance_state
          /\ Len(current_diffs[1]) > 1 =>
                 /\ WHOLE_CHICKEN_DIFF_STATE_FILE' = WHOLE_CHICKEN_DIFF_STATE_FILE
                 /\ encrypted_with'.whole_chicken_diff_state =
                        encrypted_with.whole_chicken_diff_state]_vars

C14_Witness ==
    /\ pc = "load"
    /\ Len(balance_data) = 4
    /\ BALANCE_STATE_FILE = FileOf(OldGrid)
    /\ current_diffs[1] = <<0, 0>>
    /\ WHOLE_CHICKEN_DIFF_STATE_FILE = FileOf(OldScalar)

\* C15: a grid of at least 5 rows saved to the balance file, and a number or
\* None saved to a diff_state file, is what load_previous_state returns for
\* that file afterwards under the same key.
C15_Theorem ==
    pc = "loaded" =>
        /\ Len(balance_data) >= 5 => previous_balance_data = balance_data
        /\ Len(current_diffs[1]) <= 1 => previous_diffs[1] = current_diffs[1]

C15_Witness ==
    /\ pc = "loaded"
    /\ Len(balance_data) = 6
    /\ previous_balance_data = balance_data
    /\ current_diffs[1] = Some(0)
    /\ previous_diffs[1] = Some(0)
    /\ STATE_READ_FAILURE_ALERT_FILE = << >>

\* the physical counts summed from the grid
TotalPieces == calculate_total_pieces(balance_data)
TotalPacks == SumColumns(parse_balance_data(balance_data), 1, "packs")
TotalWeight == SumColumns(parse_balance_data(balance_data), 1, "weight")

\* C18 as stated: a difference whose physical count is zero is None.
C18_Claim ==
    pc = "calculated" =>
        /\ TotalPieces = 0 => current_diffs[1] = None
        /\ TotalPacks = 0 => current_diffs[2] = None
        /\ TotalWeight = 0 => current_diffs[3] = None

\* the records for one scalar, as the claim has them
ToleranceRecords(label, previous, current) ==
    IF previous # None /\ current # None /\ Abs(current[1] - previous[1]) >= 10
    THEN << [label |-> label, old_value |-> previous[1], new_value |-> current[1]] >>
    ELSE << >>

\* the records for the whole-chicken difference: any difference counts
ExactRecords(label, previous, current) ==
    IF previous # None /\ current # None /\ current # previous
    THEN << [label |-> label, old_value |-> previous[1], new_value |-> current[1]] >>
    ELSE << >>

GizzardRecords ==
    ToleranceRecords("Gizzard Packs Balance Difference",
                     previous_diffs[2], current_diffs[2])
    \o ToleranceRecords("Gizzard Weight Balance Difference",
                        previous_diffs[3], current_diffs[3])

PreviousColumns == parse_balance_data(previous_balance_data)
CurrentColumns == parse_balance_data(balance_data)

KeysOf(cols) == { <<cols[c].product, cols[c].grade, cols[c].metric>> : c \in 1..Len(cols) }

\* the trimmed value of a key: that of the last column carrying the key, the
\* empty string when no column carries it
TrimmedValue(cols, key) ==
    LET at == { c \in 1..Len(cols) :
                   <<cols[c].product, cols[c].grade, cols[c].metric>> = key }
    IN IF at = {} THEN sEmpty ELSE Strip(cols[SetMax(at)].value)

WholeChickenWeight(key) == Contains(key[1], sWHOLE_CHICKEN) /\ key[3] = sWeight

\* the keys of the current grid that are to be reported
ChangedKeys ==
    { key \in KeysOf(CurrentColumns) :
          /\ TrimmedValue(CurrentColumns, key) # TrimmedValue(PreviousColumns, key)
          /\ ~WholeChickenWeight(key) }

RecordOf(key) ==
    [product |-> key[1], grade |-> key[2], metric |-> key[3],
     old_value |-> TrimmedValue(PreviousColumns, key),
     new_value |-> TrimmedValue(CurrentColumns, key)]

CompatibleShape ==
    /\ previous_balance_data # None
    /\ Len(previous_balance_data) >= 5
    /\ Len(balance_data) >= 5
    /\ ColumnDrift <= 10

QueueUnreadable ==
    /\ FAILED_WEBHOOKS_FILE # << >>
    /\ decrypt_state_data([data |-> FAILED_WEBHOOKS_FILE,
                           key |-> encrypted_with.failed_webhooks],
                          STATE_ENCRYPTION_KEY).raised

\* C21 as stated: a run that finds the dead-letter queue file unreadable
\* leaves a read-failure alert naming that file; nothing after the loads
\* writes or removes the alert, so it is what the run ends with.
C21_Claim ==
    [][(QueueUnreadable /\ \E fetch_ok \in BOOLEAN : Main(fetch_ok)) =>
           STATE_READ_FAILURE_ALERT_FILE' = <<"failed_webhooks.enc">>]_vars

\* a step of a run that comes before its save_current_state calls
StepBeforePersist ==
    \/ \E fetch_ok \in BOOLEAN : Main(fetch_ok)
    \/ \E status \in CrashStatuses : Post(status)

\* the run that was killed and the run that follows it see the same sheet
SameSheetAsKilledRun ==
    /\ caught = "interrupted"
    /\ sheet.grid = balance_data
    /\ sheet.inventory_balance = inventory.inventory_balance
    /\ sheet.gizzard_inventory_packs = inventory.gizzard_inventory_packs
    /\ sheet.gizzard_inventory_weight = inventory.gizzard_inventory_weight

\* the three change lists are what they were in the run before
SameChanges ==
    /\ balance_changes' = balance_changes
    /\ chicken_difference_changes' = chicken_difference_changes
    /\ gizzard_difference_changes' = gizzard_difference_changes

\* detect_balance_changes found a previous grid it cannot compare the current
\* grid with
ShapeReset ==
    /\ previous_balance_data' # None
    /\ \/ Len(balance_data') < 5
       \/ Abs(Len(previous_balance_data'[1]) - Len(balance_data'[1])) > 10

\* C22 as stated: no step of a run before its final persist step changes a
\* stored snapshot.
C22_Original ==
    [][StepBeforePersist => files' = files]_vars

\* C22: no step of a run before its final persist step changes a stored
\* difference snapshot, and none changes the stored balance snapshot unless
\* the previous grid and the current grid are of incompatible shape, in which
\* case the balance snapshot has already been replaced by the current grid;
\* either way the run that follows a killed run on the same sheet computes
\* the same three change lists as the killed run.
C22_Theorem ==
    [][/\ StepBeforePersist =>
              /\ WHOLE_CHICKEN_DIFF_STATE_FILE' = WHOLE_CHICKEN_DIFF_STATE_FILE
              /\ GIZZARD_PACKS_DIFF_STATE_FILE' = GIZZARD_PACKS_DIFF_STATE_FILE
              /\ GIZZARD_WEIGHT_DIFF_STATE_FILE' = GIZZARD_WEIGHT_DIFF_STATE_FILE
              /\ IF ShapeReset
                 THEN BALANCE_STATE_FILE' = FileOf(balance_data')
                 ELSE BALANCE_STATE_FILE' = BALANCE_STATE_FILE
       /\ (SameSheetAsKilledRun /\ Main(TRUE)) => SameChanges]_vars

\* a run killed while it was sending an alert, with its snapshots as the
\* run before it had left them
C22_Witness ==
    /\ pc = "aborted"
    /\ caught = "interrupted"
    /\ attempts = 0
    /\ delivery = "PENDING"
    /\ balance_changes # << >>
    /\ BALANCE_STATE_FILE = FileOf(previous_balance_data)
    /\ BALANCE_STATE_FILE # FileOf(balance_data)

Is2xx(status) == 200 <= status /\ status < 300

\* C23 as stated: a delivery ends as DELIVERED, with the dead-letter queue
\* cleared, only on a 2xx response; every other response is a failed attempt.
C23_Claim ==
    [][\A status \in Statuses :
           (Post(status) /\ ~Is2xx(status)) =>
               /\ delivery' # "DELIVERED"
               /\ (FAILED_WEBHOOKS_FILE # << >> => FAILED_WEBHOOKS_FILE' # << >>)]_vars

\* the step in which send_combined_alert calls save_failed_webhook
Enqueues == DeliveryEnds /\ delivery' = "DEAD_LETTERED"

\* C24 as stated: an enqueue leaves the queue as it was before, followed by
\* the one new record.
C24_Claim ==
    [][Enqueues =>
           /\ Len(FAILED_WEBHOOKS_FILE') = Len(FAILED_WEBHOOKS_FILE) + 1
           /\ SubSeq(FAILED_WEBHOOKS_FILE', 1, Len(FAILED_WEBHOOKS_FILE))
                  = FAILED_WEBHOOKS_FILE]_vars

\* HTTP 4xx other than rate limiting
PermanentApiError(status) == ClientError(status) /\ ~is_rate_limit_error(status)

\* C25 as stated: a spreadsheet read makes no attempt after a permanent 4xx
\* error, and at most 5 attempts in all.
C25_Claim ==
    /\ attempts <= 5
    /\ \A i \in 1..(Len(responses) - 1) : ~PermanentApiError(responses[i])

\* C26 as stated: the attempts field of the record an enqueue adds is the
\* number of POSTs made for that payload: 5 after exhausted retries, 1 after
\* a terminal 4xx, 0 when the breaker rejected the call.
C26_Claim ==
    [][(Enqueues /\ FAILED_WEBHOOKS_FILE' # << >>) =>
           Last(FAILED_WEBHOOKS_FILE').attempts = attempts']_vars

\* the index detect_balance_changes builds from the current grid
CurrentIndex == ColumnsToDict(CurrentColumns, 1, << >>)

\* C27 as stated: for every pair of compatible grids the comparison returns
\* without an error, and its index has one entry for each (product, grade,
\* metric) of the current grid, whatever characters the names contain.
C27_Claim ==
    (Returned /\ CompatibleShape) =>
        /\ pc = "returned"
        /\ Len(CurrentIndex) = Cardinality(KeysOf(CurrentColumns))

\* the queue file keeps what it held and gains one record
AppendsOne ==
    /\ Len(FAILED_WEBHOOKS_FILE') = Len(FAILED_WEBHOOKS_FILE) + 1
    /\ SubSeq(FAILED_WEBHOOKS_FILE', 1, Len(FAILED_WEBHOOKS_FILE)) = FAILED_WEBHOOKS_FILE

\* the balance snapshot goes back to an older version of the sheet
OlderSnapshot ==
    /\ BALANCE_STATE_FILE.exists
    /\ VersionOf(BALANCE_STATE_FILE'.data) < VersionOf(BALANCE_STATE_FILE.data)

\* C28: the write of an instance loses an entry of the queue, or replaces the
\* balance snapshot by an older observation, only when the file is no longer
\* what this instance had read, that is when another instance wrote between
\* its read and its write; with two interleaved instances both losses happen.
C28_Theorem ==
    [][\A i \in Instances :
           /\ (WriteQueue(i) /\ ~AppendsOne) => queue_at_send[i] # FAILED_WEBHOOKS_FILE
           /\ (PersistRun(i) /\ OlderSnapshot) =>
                  BALANCE_STATE_FILE.data # previous_balance_data[i]]_vars

\* both instances have enqueued a FailedDelivery and one is missing; the
\* snapshot is the older observation of instance 1, written over the newer
\* one of instance 2
C28_Witness ==
    /\ \A i \in Instances : pc[i] = "done" /\ delivery[i] = "DEAD_LETTERED"
    /\ Len(FAILED_WEBHOOKS_FILE) = 1
    /\ BALANCE_STATE_FILE = FileOf(balance_data[1])
    /\ VersionOf(balance_data[1]) < VersionOf(balance_data[2])

\* the three stored differences and the labels of their records
ScalarFiles ==
    <<WHOLE_CHICKEN_DIFF_STATE_FILE, GIZZARD_PACKS_DIFF_STATE_FILE,
      GIZZARD_WEIGHT_DIFF_STATE_FILE>>

ScalarLabels ==
    <<"Whole Chicken Balance Difference", "Gizzard Packs Balance Difference",
      "Gizzard Weight Balance Difference">>

\* C29: the persist step of a run whose difference is None writes None over
\* the stored difference, and a run that finds None stored reports no change
\* of that difference, whatever value it computes; so a change from v to w
\* across a run without a value is reported in no run.
C29_Theorem ==
    [][\A k \in 1..3 :
           /\ (Persist /\ current_diffs[k] = None) => ScalarFiles'[k] = FileOf(None)
           /\ (Main(TRUE) /\ ScalarFiles[k] = FileOf(None)) =>
                  /\ previous_diffs'[k] = None
                  /\ NoRecordLabelled(chicken_difference_changes', ScalarLabels[k])
                  /\ NoRecordLabelled(gizzard_difference_changes', ScalarLabels[k])]_vars

\* the whole-chicken difference was 2, then not computable, and is 1 now:
\* the run reports the gizzard weight difference alone
C29_Witness ==
    /\ pc \in {"sending", "persist"}
    /\ ReseedVersion(sheet) = 3
    /\ WHOLE_CHICKEN_DIFF_STATE_FILE = FileOf(None)
    /\ previous_diffs[1] = None
    /\ current_diffs[1] = Some(1000)
    /\ balance_changes = << >>
    /\ chicken_difference_changes = << >>
    /\ Len(gizzard_difference_changes) = 1
    /\ gizzard_difference_changes[1].label = "Gizzard Weight Balance Difference"

LogDates == { daily_log[r].date : r \in 1..Len(daily_log) }
LogIds == { daily_log[r].entry_id : r \in 1..Len(daily_log) }

\* no two data rows share a date or an Entry ID
OneRowPerDate ==
    /\ Cardinality(LogDates) = Len(daily_log)
    /\ Cardinality(LogIds) = Len(daily_log)

\* what a run on a day does to the rows
RunOnDay(day) ==
    IF FormatDate(day) \in LogDates
    THEN /\ Len(daily_log') = Len(daily_log)
         /\ \A r \in 1..Len(daily_log) :
                /\ daily_log'[r].entry_id = daily_log[r].entry_id
                /\ daily_log'[r].date = daily_log[r].date
                /\ daily_log[r].date # FormatDate(day) => daily_log'[r] = daily_log[r]
    ELSE /\ Len(daily_log') = Len(daily_log) + 1
         /\ SubSeq(daily_log', 1, Len(daily_log)) = daily_log
         /\ Last(daily_log').date = FormatDate(day)
         /\ Last(daily_log').entry_id =
                IF LogIds = {} THEN 1 ELSE SetMax(LogIds) + 1

====
